---- MODULE Spec2Model ----
(***************************************************************************)
(* Model of the vox capture-to-transcript pipeline.                        *)
(*                                                                         *)
(*   - MalgoCapturer (internal/audio/buffer.go): the capture callback, the *)
(*     samples/errors channels, Start, Stop and the context monitor.       *)
(*   - VAD (audio package, VAD.ProcessFrame / VAD.Reset).                  *)
(***************************************************************************)
EXTENDS Integers, Sequences, FiniteSets, TLC

(***************************************************************************)
(* Program constants                                                       *)
(***************************************************************************)
\* make(chan AudioSample, 10)
SamplesChanCap == 10
\* make(chan error, 10)
ErrorsChanCap == 10
\* CaptureConfig.SampleBufferSize of the three profiles
DefaultSampleBufferSize == 50
MediumSampleBufferSize == 150
LargeSampleBufferSize == 300
\* DefaultVADConfig().SpeechFrames
DefaultSpeechFrames == 3

(***************************************************************************)
(* Bounds of the model                                                     *)
(***************************************************************************)
\* frames the device delivers in the general specification
MaxFrames == 12
\* frames of the burst scenario (60 pushes, nobody draining)
BurstFrames == 60
\* Stop calls made by the owner of the capturer
MaxStops == 2
\* frames fed to the VAD
MaxVADFrames == 7
\* largest SilenceFrames / SpeechFrames explored
MaxSilenceFrames == 3
MaxSpeechFrames == 3
\* frames and capture errors a continuous session reads
MaxRunFrames == 6
MaxRunErrors == 1
\* key-downs and frames of a push-to-talk run
MaxToggles == 4
MaxPTTFrames == 3
\* chunks the gRPC streams receive in all
MaxGrpcChunks == 3
\* RingBuffer: largest size, longest slice, largest byte, calls made
MaxRingSize == 3
MaxRingData == 2
MaxRingByte == 1
MaxRingOps == 4
\* the scenario: loud frames, then silent frames
ScenarioLoud == 3
ScenarioSilent == 15

VARIABLES
    \* ---- MalgoCapturer ----
    config,         \* CaptureConfig.SampleBufferSize (0: not constructed)
    samples,        \* buffered content of m.samples
    errors,         \* buffered content of m.errors
    closed,         \* number of close() calls per channel
    running,        \* m.running
    device,         \* m.device: "nil", "started", "uninit"
    malgoContext,   \* m.malgoContext: "nil", "init", "freed"
    wg,             \* m.wg counter
    ctxDone,        \* ctx.Done() is closed
    pc,             \* position of the owner goroutine and of the monitor
    stopRet,        \* what the last Stop call of each goroutine returned
    stopCalls,      \* Stop calls made by the owner
    panicked,       \* a runtime panic happened
    teardowns,      \* device.Stop()+Uninit() sequences completed
    \* ---- observation of the capture pipeline ----
    captured,       \* frames the device delivered; frame k is the k-th
    received,       \* frames the consumer read, in order
    dropped,        \* frames dropped by the callback, in order
    overflowSent,   \* overflow errors placed on m.errors
    errsReceived,   \* errors the consumer read
    lastPush,       \* outcome of the last callback
    \* ---- VAD ----
    vad,            \* the orchestrator's vad pointer: "nil" or "set"
    vadConfig,      \* VADConfig
    silenceFrameCount,
    speechFrameCount,
    isSpeaking,
    lastSpeechDetection,
    vadRet,         \* what the last ProcessFrame returned
    \* ---- observation of the VAD ----
    vadCalls,       \* ProcessFrame calls made
    speechRun,      \* current run of frames with speech
    silenceRun,     \* current run of frames without speech
    vadStarts,      \* ProcessFrame calls that returned speechStarted, and
    vadEnds,        \* those that returned speechEnded, since the last Reset
    vadFrame,       \* the frame of the last ProcessFrame call
    \* ---- VoskEngine ----
    engineAudio,    \* frames the recognizer accepted for the open utterance
    \* ---- Transcriber.Run (continuous mode) ----
    runPc,          \* "init", "loop" or "stopped"
    format,         \* t.config.OutputFormat: "console", "json" or "text"
    lastPartialText,
    transcriptionCount,
    \* ---- observation of the session ----
    finals,         \* final transcripts emitted: index (0: none), text, origin
    stepCalls,      \* calls made by the last step of the loop, in order
    lastOut,        \* what the engine call of the last step returned
    runFrames,      \* frames the loop has read
    runErrors,      \* capture errors the loop has read
    frCalls,        \* FinalResult calls made
    paSinceFinal,   \* ProcessAudio calls made since the last FinalResult
    emittedPartial, \* the text of the last partial written since the last
                    \* final transcript or VAD boundary ("": none)
    utterPartials,  \* the texts of all partials written since then, in order
    \* ---- PTTTranscriber.collectSamples ----
    pttPc,          \* "idle", "collecting" or "returned"
    pttRecording,   \* p.recording
    pttBuffer,      \* p.audioBuffer: the frames appended, in order
    \* ---- PTTTranscriber.Run and the hotkey goroutine ----
    pttMain,        \* position of the main loop ("off": not in this mode)
    toggleChan,     \* buffered content of toggleChan
    hkRecording,    \* HotkeyManager.recording
    hkPc,           \* the hotkey goroutine: "select", or "call" between the
                    \* flip of h.recording and the call of onToggle
    capturerRunning,
    pttReplayPos,   \* i of the chunk loop of transcribe, in bytes
    pttTranscriptCount,
    pttFrameBytes,  \* bytes per frame of the session's capturer
    \* ---- observation of push-to-talk ----
    hkSent,         \* key-downs handled by the hotkey goroutine
    pttHandled,     \* toggles the main loop has taken, in order
    pttCalls,       \* calls of the current session, in order
    pttOutcomes,    \* how the sessions ended, in order
    pttAccepted,    \* frames accepted into the channel while recording
    \* ---- Server.handleTranscribeAudio (MCP live capture) ----
    mcpPc,          \* "idle", "loop", "transcribe" or "returned"
    mcpSpeechStarted,
    mcpSilenceCount,
    mcpBuffer,      \* frames appended to audioBuffer
    \* ---- session setup ----
    modelName,      \* selectedModel, as a sequence of characters
    audioConfig,    \* SampleBufferSize of the profile chosen (0: none yet)
    appSilence,     \* Transcriber.Run: the delay and its SilenceFrames
    mcpSilence,     \* TranscribeAudio: the delay and its SilenceFrames
    \* ---- STTService (gRPC) ----
    grpcPc,         \* per stream: "idle", "open" or "returned"
    grpcEngine,     \* s.engine: the chunks of the open utterance, each
                    \* named by the stream it came from
    grpcChunks,     \* chunks received over all streams
    grpcFed,        \* the streams whose audio was passed to s.engine
    grpcSent,       \* results sent, with the streams whose audio they hold
    rbSize,         \* RingBuffer.size, 0 before NewRingBuffer
    rbBuffer,       \* RingBuffer.buffer, indexed from 0
    rbWritePos,     \* RingBuffer.writePos
    rbReadPos,      \* RingBuffer.readPos
    rbFull,         \* RingBuffer.full
    rwWriter,       \* RingBuffer.mu: the goroutine that called Lock, or "none"
    rwReaders,      \* RingBuffer.mu: the read locks each goroutine holds
    rbPc,           \* where each goroutine is in its call
    rbOp,           \* the call each goroutine is in
    rbAccepted,     \* the bytes Write accepted since the last Reset
    rbReadOut,      \* the bytes Read returned since the last Reset
    rbRet,          \* what the last call that returned has returned
    rbCalls         \* calls made

capVars == <<config, samples, errors, closed, running, device, malgoContext,
             wg, ctxDone, pc, stopRet, stopCalls, panicked, teardowns>>
obsVars == <<captured, received, dropped, overflowSent, errsReceived, lastPush>>
vadVars == <<vad, vadConfig, silenceFrameCount, speechFrameCount, isSpeaking,
             lastSpeechDetection, vadRet>>
vadObsVars == <<vadCalls, speechRun, silenceRun, vadStarts, vadEnds, vadFrame>>
runVars == <<engineAudio, runPc, format, lastPartialText, transcriptionCount>>
runObsVars == <<finals, stepCalls, lastOut, runFrames, runErrors, frCalls,
                paSinceFinal, emittedPartial, utterPartials>>
pttVars == <<pttPc, pttRecording, pttBuffer, pttMain, toggleChan, hkRecording, hkPc,
             capturerRunning, pttReplayPos, pttTranscriptCount, pttFrameBytes>>
pttObsVars == <<hkSent, pttHandled, pttCalls, pttOutcomes, pttAccepted>>
mcpVars == <<mcpPc, mcpSpeechStarted, mcpSilenceCount, mcpBuffer>>
setupVars == <<modelName, audioConfig, appSilence, mcpSilence>>
grpcVars == <<grpcPc, grpcEngine, grpcChunks, grpcFed, grpcSent>>
ringState == <<rbSize, rbBuffer, rbWritePos, rbReadPos, rbFull>>
ringObsVars == <<rbAccepted, rbReadOut, rbRet, rbCalls>>
ringVars == <<ringState, rwWriter, rwReaders, rbPc, rbOp, ringObsVars>>
sessVars == <<runVars, runObsVars, pttVars, pttObsVars, mcpVars, setupVars,
              grpcVars, ringVars>>
vars == <<capVars, obsVars, vadVars, vadObsVars, sessVars>>

Procs == {"owner", "monitor"}
Channels == {"samples", "errors", "stopChan"}

(***************************************************************************)
(* Capture profiles (capture.go)                                           *)
(***************************************************************************)
DefaultConfig == DefaultSampleBufferSize
MediumModelConfig == MediumSampleBufferSize
LargeModelConfig == LargeSampleBufferSize
Profiles == {DefaultConfig, MediumModelConfig, LargeModelConfig}

InitCap ==
    /\ config = 0
    /\ samples = <<>>
    /\ errors = <<>>
    /\ closed = [c \in Channels |-> 0]
    /\ running = FALSE
    /\ device = "nil"
    /\ malgoContext = "nil"
    /\ wg = 0
    /\ ctxDone = FALSE
    /\ pc = [p \in Procs |-> IF p = "owner" THEN "new" ELSE "none"]
    /\ stopRet = [p \in Procs |-> "none"]
    /\ stopCalls = 0
    /\ panicked = "none"
    /\ teardowns = 0
    /\ captured = 0
    /\ received = <<>>
    /\ dropped = <<>>
    /\ overflowSent = 0
    /\ errsReceived = 0
    /\ lastPush = "none"

\* NewMalgoCapturer: the channels are made with a fixed capacity
NewMalgoCapturer(cfg) ==
    /\ pc["owner"] = "new"
    /\ config' = cfg
    /\ samples' = <<>>
    /\ errors' = <<>>
    /\ closed' = [c \in Channels |-> 0]
    /\ pc' = [pc EXCEPT !["owner"] = "created"]
    /\ UNCHANGED <<running, device, malgoContext, wg, ctxDone, stopRet,
                   stopCalls, panicked, teardowns, obsVars>>

\* capacity of m.samples as NewMalgoCapturer makes it
SamplesCapacity == SamplesChanCap
ErrorsCapacity == ErrorsChanCap

(***************************************************************************)
(* MalgoCapturer.Start                                                     *)
(***************************************************************************)
\* m.mu.Lock(); if m.running { return error }; m.running = true
StartLock ==
    /\ pc["owner"] = "created"
    /\ IF running
         THEN /\ pc' = [pc EXCEPT !["owner"] = "failed"]
              /\ UNCHANGED running
         ELSE /\ running' = TRUE
              /\ pc' = [pc EXCEPT !["owner"] = "start_ctx"]
    /\ UNCHANGED <<config, samples, errors, closed, device, malgoContext, wg,
                   ctxDone, stopRet, stopCalls, panicked, teardowns, obsVars>>

\* malgo.InitContext succeeds
StartInitContext ==
    /\ pc["owner"] = "start_ctx"
    /\ malgoContext' = "init"
    /\ pc' = [pc EXCEPT !["owner"] = "start_device"]
    /\ UNCHANGED <<config, samples, errors, closed, running, device, wg,
                   ctxDone, stopRet, stopCalls, panicked, teardowns, obsVars>>

\* malgo.InitContext fails: m.running = false, return error
StartInitContextFail ==
    /\ pc["owner"] = "start_ctx"
    /\ running' = FALSE
    /\ pc' = [pc EXCEPT !["owner"] = "failed"]
    /\ UNCHANGED <<config, samples, errors, closed, device, malgoContext, wg,
                   ctxDone, stopRet, stopCalls, panicked, teardowns, obsVars>>

\* malgo.InitDevice and device.Start succeed: callbacks may fire from now on
StartDevice ==
    /\ pc["owner"] = "start_device"
    /\ device' = "started"
    /\ pc' = [pc EXCEPT !["owner"] = "start_monitor"]
    /\ UNCHANGED <<config, samples, errors, closed, running, malgoContext, wg,
                   ctxDone, stopRet, stopCalls, panicked, teardowns, obsVars>>

\* malgo.InitDevice fails (m.device stays nil) or device.Start fails
\* (m.device is set and uninitialised); the context is freed either way
StartDeviceFail ==
    /\ pc["owner"] = "start_device"
    /\ device' \in {"nil", "uninit"}
    /\ malgoContext' = "freed"
    /\ running' = FALSE
    /\ pc' = [pc EXCEPT !["owner"] = "failed"]
    /\ UNCHANGED <<config, samples, errors, closed, wg, ctxDone, stopRet,
                   stopCalls, panicked, teardowns, obsVars>>

\* m.wg.Add(1); go func() { ... }(); return nil
StartMonitor ==
    /\ pc["owner"] = "start_monitor"
    /\ wg' = wg + 1
    /\ pc' = [pc EXCEPT !["owner"] = "idle", !["monitor"] = "select"]
    /\ UNCHANGED <<config, samples, errors, closed, running, device,
                   malgoContext, ctxDone, stopRet, stopCalls, panicked,
                   teardowns, obsVars>>

(***************************************************************************)
(* dataCallback.Data: one invocation of the capture callback for the next  *)
(* frame.  Both sends are non-blocking selects; a send on a closed channel *)
(* panics.                                                                 *)
(***************************************************************************)
\* case m.samples <- sample: ready exactly when the buffer has room
SampleSendAlways == TRUE
SampleSendReady == Len(samples) < SamplesCapacity

\* the buffer of m.samples after the select on frame f: the send when it is
\* ready, otherwise the default case, which leaves the channel alone
SamplesAfterPushOverwrite(f) ==
    IF SampleSendReady THEN Append(samples, f) ELSE Append(Tail(samples), f)
SamplesAfterPushLIFO(f) ==
    IF SampleSendReady THEN <<f>> \o samples ELSE samples
SamplesAfterPush(f) ==
    IF SampleSendReady THEN Append(samples, f) ELSE samples

\* case m.errors <- fmt.Errorf("sample buffer overflow, dropping frames")
ErrorSendReady == Len(errors) < ErrorsCapacity

\* a callback that sends with a plain, blocking m.samples <- sample
DataBlocking ==
    /\ device = "started"
    /\ closed["samples"] = 0
    /\ Len(samples) < SamplesCapacity
    /\ captured' = captured + 1
    /\ samples' = Append(samples, captured + 1)
    /\ lastPush' = "accepted"
    /\ UNCHANGED <<errors, dropped, overflowSent, panicked>>
    /\ UNCHANGED <<config, closed, running, device, malgoContext, wg, ctxDone,
                   pc, stopRet, stopCalls, teardowns, received, errsReceived>>

Data ==
    /\ device = "started"
    /\ captured' = captured + 1
    /\ IF closed["samples"] > 0
         THEN /\ panicked' = "send on closed channel"
              /\ lastPush' = "panic"
              /\ UNCHANGED <<samples, errors, dropped, overflowSent>>
         ELSE /\ samples' = SamplesAfterPush(captured + 1)
              /\ IF SampleSendReady
                   THEN /\ lastPush' = "accepted"
                        /\ UNCHANGED <<errors, dropped, overflowSent, panicked>>
                   ELSE \* default: the frame is dropped
                        /\ dropped' = Append(dropped, captured + 1)
                        /\ lastPush' = "dropped"
                        /\ IF closed["errors"] > 0
                             THEN /\ panicked' = "send on closed channel"
                                  /\ UNCHANGED <<errors, overflowSent>>
                             ELSE IF ErrorSendReady
                               THEN /\ errors' = Append(errors, "overflow")
                                    /\ overflowSent' = overflowSent + 1
                                    /\ UNCHANGED panicked
                               ELSE \* default: the error is dropped too
                                    UNCHANGED <<errors, overflowSent, panicked>>
    /\ UNCHANGED <<config, closed, running, device, malgoContext, wg, ctxDone,
                   pc, stopRet, stopCalls, teardowns, received, errsReceived>>

\* the device delivers the next frame, at most limit frames in all
DeviceDelivers(limit) ==
    /\ captured < limit
    /\ Data

(***************************************************************************)
(* The consumer side of the two channels (<-capturer.Samples(),            *)
(* <-capturer.Errors() in the orchestrator loops)                          *)
(***************************************************************************)
RecvSample ==
    /\ Len(samples) > 0
    /\ received' = Append(received, Head(samples))
    /\ samples' = Tail(samples)
    /\ UNCHANGED <<config, errors, closed, running, device, malgoContext, wg,
                   ctxDone, pc, stopRet, stopCalls, panicked, teardowns,
                   captured, dropped, overflowSent, errsReceived, lastPush>>

RecvError ==
    /\ Len(errors) > 0
    /\ errsReceived' = errsReceived + 1
    /\ errors' = Tail(errors)
    /\ UNCHANGED <<config, samples, closed, running, device, malgoContext, wg,
                   ctxDone, pc, stopRet, stopCalls, panicked, teardowns,
                   captured, received, dropped, overflowSent, lastPush>>

(***************************************************************************)
(* Cancellation of the context passed to Start                             *)
(***************************************************************************)
Cancel ==
    /\ ~ctxDone
    /\ ctxDone' = TRUE
    /\ UNCHANGED <<config, samples, errors, closed, running, device,
                   malgoContext, wg, pc, stopRet, stopCalls, panicked,
                   teardowns, obsVars>>

(***************************************************************************)
(* MalgoCapturer.Stop, run by goroutine p                                  *)
(***************************************************************************)
\* where p continues when its Stop call returns r; the monitor's deferred
\* m.wg.Done() runs when its function returns
StopReturns(p, r) ==
    /\ stopRet' = [stopRet EXCEPT ![p] = r]
    /\ IF p = "monitor"
         THEN /\ pc' = [pc EXCEPT ![p] = "exited"]
              /\ wg' = wg - 1
         ELSE /\ pc' = [pc EXCEPT ![p] = "idle"]
              /\ UNCHANGED wg

\* the owner calls Stop (defer capturer.Stop(), or an explicit call)
CallStop ==
    /\ pc["owner"] = "idle"
    /\ stopCalls < MaxStops
    /\ stopCalls' = stopCalls + 1
    /\ pc' = [pc EXCEPT !["owner"] = "stop_check"]
    /\ UNCHANGED <<config, samples, errors, closed, running, device,
                   malgoContext, wg, ctxDone, stopRet, panicked, teardowns,
                   obsVars>>

\* m.mu.Lock(); if !m.running { return nil }; m.running = false
StopCheck(p) ==
    /\ pc[p] = "stop_check"
    /\ IF ~running
         THEN /\ StopReturns(p, "nil")
              /\ UNCHANGED running
         ELSE /\ running' = FALSE
              /\ pc' = [pc EXCEPT ![p] = "stop_signal"]
              /\ UNCHANGED <<wg, stopRet>>
    /\ UNCHANGED <<config, samples, errors, closed, device, malgoContext,
                   ctxDone, stopCalls, panicked, teardowns, obsVars>>

\* close(m.stopChan)
StopSignal(p) ==
    /\ pc[p] = "stop_signal"
    /\ IF closed["stopChan"] > 0
         THEN /\ panicked' = "close of closed channel"
              /\ UNCHANGED <<closed, pc>>
         ELSE /\ closed' = [closed EXCEPT !["stopChan"] = @ + 1]
              /\ pc' = [pc EXCEPT ![p] = "stop_device"]
              /\ UNCHANGED panicked
    /\ UNCHANGED <<config, samples, errors, running, device, malgoContext, wg,
                   ctxDone, stopRet, stopCalls, teardowns, obsVars>>

\* m.device.Stop() succeeds; m.device.Uninit(); context Uninit and Free
StopDevice(p) ==
    /\ pc[p] = "stop_device"
    /\ IF device # "nil"
         THEN /\ device' = "uninit"
              /\ teardowns' = teardowns + 1
         ELSE UNCHANGED <<device, teardowns>>
    /\ malgoContext' = IF malgoContext # "nil" THEN "freed" ELSE malgoContext
    /\ pc' = [pc EXCEPT ![p] = "stop_wait"]
    /\ UNCHANGED <<config, samples, errors, closed, running, wg, ctxDone,
                   stopRet, stopCalls, panicked, obsVars>>

\* m.device.Stop() fails: return the error at once
StopDeviceFail(p) ==
    /\ pc[p] = "stop_device"
    /\ device # "nil"
    /\ StopReturns(p, "err")
    /\ UNCHANGED <<config, samples, errors, closed, running, device,
                   malgoContext, ctxDone, stopCalls, panicked, teardowns,
                   obsVars>>

\* m.wg.Wait()
StopWait(p) ==
    /\ pc[p] = "stop_wait"
    /\ wg = 0
    /\ pc' = [pc EXCEPT ![p] = "stop_close"]
    /\ UNCHANGED <<config, samples, errors, closed, running, device,
                   malgoContext, wg, ctxDone, stopRet, stopCalls, panicked,
                   teardowns, obsVars>>

\* close(m.samples); close(m.errors); return nil
StopClose(p) ==
    /\ pc[p] = "stop_close"
    /\ IF closed["samples"] > 0 \/ closed["errors"] > 0
         THEN /\ panicked' = "close of closed channel"
              /\ UNCHANGED <<closed, pc, wg, stopRet>>
         ELSE /\ closed' = [closed EXCEPT !["samples"] = @ + 1,
                                          !["errors"] = @ + 1]
              /\ StopReturns(p, "nil")
              /\ UNCHANGED panicked
    /\ UNCHANGED <<config, samples, errors, running, device, malgoContext,
                   ctxDone, stopCalls, teardowns, obsVars>>

Stop(p) ==
    \/ StopCheck(p)
    \/ StopSignal(p)
    \/ StopDevice(p)
    \/ StopDeviceFail(p)
    \/ StopWait(p)
    \/ StopClose(p)

(***************************************************************************)
(* The context monitoring goroutine of Start                               *)
(***************************************************************************)
\* case <-ctx.Done(): m.Stop()
MonitorCtxDone ==
    /\ pc["monitor"] = "select"
    /\ ctxDone
    /\ pc' = [pc EXCEPT !["monitor"] = "stop_check"]
    /\ UNCHANGED <<config, samples, errors, closed, running, device,
                   malgoContext, wg, ctxDone, stopRet, stopCalls, panicked,
                   teardowns, obsVars>>

\* case <-m.stopChan: return  (then the deferred m.wg.Done())
MonitorStopChan ==
    /\ pc["monitor"] = "select"
    /\ closed["stopChan"] > 0
    /\ pc' = [pc EXCEPT !["monitor"] = "exited"]
    /\ wg' = wg - 1
    /\ UNCHANGED <<config, samples, errors, closed, running, device,
                   malgoContext, ctxDone, stopRet, stopCalls, panicked,
                   teardowns, obsVars>>

Monitor ==
    \/ MonitorCtxDone
    \/ MonitorStopChan
    \/ Stop("monitor")

\* the owner calls Start again on the capturer after one of its Stop calls
\* has returned, the old monitor goroutine gone or waiting in Stop for good
CallStart ==
    /\ pc["owner"] = "idle"
    /\ stopRet["owner"] # "none"
    /\ pc["monitor"] \in {"exited", "stop_wait"}
    /\ pc' = [pc EXCEPT !["owner"] = "created"]
    /\ UNCHANGED <<config, samples, errors, closed, running, device,
                   malgoContext, wg, ctxDone, stopRet, stopCalls, panicked,
                   teardowns, obsVars>>

CapNext ==
    /\ panicked = "none"
    /\ \/ \E cfg \in Profiles : NewMalgoCapturer(cfg)
       \/ StartLock
       \/ StartInitContext
       \/ StartInitContextFail
       \/ StartDevice
       \/ StartDeviceFail
       \/ StartMonitor
       \/ DeviceDelivers(MaxFrames)
       \/ RecvSample
       \/ RecvError
       \/ Cancel
       \/ CallStop
       \/ Stop("owner")
       \/ Monitor

(***************************************************************************)
(* VAD                                                                     *)
(***************************************************************************)
\* an EnergyThreshold is kept as the fraction num / den in units of 1/32768
\* 0.01 = 327.68 / 32768 = (8192 / 25) / 32768
DefaultEnergyThreshold == [num |-> 8192, den |-> 25]

\* EnergyThreshold values the VAD is explored with (0.03125, 0.0625)
Thresholds == {[num |-> 1024, den |-> 1], [num |-> 2048, den |-> 1]}

\* audio frames explored: little-endian 16-bit samples
\* (0, 1024, 2048, 2049, 4096, -2048, and two frames of two samples)
FrameSet == {<<>>, <<0, 0>>, <<0, 4>>, <<0, 8>>, <<1, 8>>, <<0, 16>>,
             <<0, 248>>, <<0, 8, 0, 16>>, <<0, 0, 0, 8>>, <<0, 8, 7>>}

\* int16(data[i*2]) | int16(data[i*2+1])<<8, for the i-th sample (from 0)
SampleAt(data, i) ==
    LET u == data[2 * i + 1] + 256 * data[2 * i + 2]
    IN  IF u >= 32768 THEN u - 65536 ELSE u

RECURSIVE SumSquares(_, _)
SumSquares(data, n) ==
    IF n = 0 THEN 0
    ELSE SumSquares(data, n - 1) + SampleAt(data, n - 1) * SampleAt(data, n - 1)

\* calculateEnergy: the value sqrt(sum / count) / 32768, kept as the pair
\* (sum of squared samples, sample count); count = 0 stands for energy 0
calculateEnergy(data) ==
    LET sampleCount == Len(data) \div 2
    IN  [sum |-> SumSquares(data, sampleCount), count |-> sampleCount]

\* energy > threshold: sqrt(sum / count) > num / den
EnergyAbove(energy, thr) ==
    /\ energy.count > 0
    /\ energy.sum * thr.den * thr.den > thr.num * thr.num * energy.count

\* energy = threshold
EnergyEquals(energy, thr) ==
    /\ energy.count > 0
    /\ energy.sum * thr.den * thr.den = thr.num * thr.num * energy.count

ZeroVADConfig ==
    [EnergyThreshold |-> [num |-> 0, den |-> 1],
     SilenceFrames |-> 0, SpeechFrames |-> 0]
NoVADResult == [isSpeaking |-> FALSE, speechStarted |-> FALSE, speechEnded |-> FALSE]

InitVAD ==
    /\ vad = "nil"
    /\ vadConfig = ZeroVADConfig
    /\ silenceFrameCount = 0
    /\ speechFrameCount = 0
    /\ isSpeaking = FALSE
    /\ lastSpeechDetection = FALSE
    /\ vadRet = NoVADResult
    /\ vadCalls = 0
    /\ speechRun = 0
    /\ silenceRun = 0
    /\ vadStarts = 0
    /\ vadEnds = 0
    /\ vadFrame = <<>>

VADConfigs ==
    [EnergyThreshold : Thresholds,
     SilenceFrames : 1..MaxSilenceFrames,
     SpeechFrames : 1..MaxSpeechFrames]

NewVAD(cfg) ==
    /\ vad = "nil"
    /\ vad' = "set"
    /\ vadConfig' = cfg
    /\ isSpeaking' = FALSE
    /\ UNCHANGED <<silenceFrameCount, speechFrameCount, lastSpeechDetection,
                   vadRet, vadObsVars>>
    /\ UNCHANGED <<capVars, obsVars>>

\* frameHasSpeech := energy > v.config.EnergyThreshold
FrameHasSpeech(data) ==
    EnergyAbove(calculateEnergy(data), vadConfig.EnergyThreshold)

\* v.speechFrameCount after a frame: ++ on speech, 0 on silence
SpeechCountAfterNoReset(frameHasSpeech) ==
    IF frameHasSpeech THEN speechFrameCount + 1 ELSE speechFrameCount
SpeechCountAfter(frameHasSpeech) ==
    IF frameHasSpeech THEN speechFrameCount + 1 ELSE 0

\* v.silenceFrameCount after a frame: 0 on speech, ++ on silence
SilenceCountAfterNoReset(frameHasSpeech) ==
    IF frameHasSpeech THEN silenceFrameCount ELSE silenceFrameCount + 1
SilenceCountAfter(frameHasSpeech) ==
    IF frameHasSpeech THEN 0 ELSE silenceFrameCount + 1

SpeechThresholdCrossedAgain(count) == count >= vadConfig.SpeechFrames
SpeechThresholdCrossedStrict(count) ==
    ~isSpeaking /\ count > vadConfig.SpeechFrames
\* !v.isSpeaking && v.speechFrameCount >= v.config.SpeechFrames
SpeechThresholdCrossed(count) ==
    ~isSpeaking /\ count >= vadConfig.SpeechFrames

SilenceThresholdCrossedStrict(count) ==
    isSpeaking /\ count > vadConfig.SilenceFrames
\* v.isSpeaking && v.silenceFrameCount >= v.config.SilenceFrames
SilenceThresholdCrossed(count) ==
    isSpeaking /\ count >= vadConfig.SilenceFrames

ProcessFrame(audioData) ==
    /\ vad = "set"
    /\ LET frameHasSpeech == FrameHasSpeech(audioData)
           speechStarted == frameHasSpeech
                            /\ SpeechThresholdCrossed(SpeechCountAfter(frameHasSpeech))
           speechEnded == ~frameHasSpeech
                          /\ SilenceThresholdCrossed(SilenceCountAfter(frameHasSpeech))
           speakingNow == IF speechStarted THEN TRUE
                          ELSE IF speechEnded THEN FALSE
                          ELSE isSpeaking
       IN  /\ speechFrameCount' = SpeechCountAfter(frameHasSpeech)
           /\ silenceFrameCount' = SilenceCountAfter(frameHasSpeech)
           /\ isSpeaking' = speakingNow
           /\ lastSpeechDetection' = frameHasSpeech
           /\ vadRet' = [isSpeaking |-> speakingNow,
                         speechStarted |-> speechStarted,
                         speechEnded |-> speechEnded]
           /\ speechRun' = IF frameHasSpeech THEN speechRun + 1 ELSE 0
           /\ silenceRun' = IF frameHasSpeech THEN 0 ELSE silenceRun + 1
           /\ vadStarts' = IF speechStarted THEN vadStarts + 1 ELSE vadStarts
           /\ vadEnds' = IF speechEnded THEN vadEnds + 1 ELSE vadEnds
    /\ vadCalls' = vadCalls + 1
    /\ vadFrame' = audioData
    /\ UNCHANGED <<vad, vadConfig>>
    /\ UNCHANGED <<capVars, obsVars>>

\* VAD.Reset
VADReset ==
    /\ vad = "set"
    /\ vadCalls < MaxVADFrames
    /\ silenceFrameCount' = 0
    /\ speechFrameCount' = 0
    /\ isSpeaking' = FALSE
    /\ lastSpeechDetection' = FALSE
    /\ speechRun' = 0
    /\ silenceRun' = 0
    /\ vadStarts' = 0
    /\ vadEnds' = 0
    /\ UNCHANGED <<vad, vadConfig, vadRet, vadCalls, vadFrame>>
    /\ UNCHANGED <<capVars, obsVars>>


(***************************************************************************)
(* VoskEngine (the recognizer adapter).  The recognizer keeps the audio of *)
(* the open utterance; Result() and FinalResult() of the recognizer close  *)
(* the utterance ("FinalResult returns the final result and resets the     *)
(* recognizer", "Vosk automatically resets after FinalResult").            *)
(***************************************************************************)
Texts == {"", "hello", "world"}

NoOutcome == [kind |-> "none", text |-> ""]
NilOutcome == [kind |-> "nil", text |-> ""]
ErrOutcome == [kind |-> "err", text |-> ""]
Outcomes == [kind : {"partial", "final"}, text : Texts]
              \cup {NoOutcome, ErrOutcome}

\* what ProcessAudio may return: ctx.Err() once the context is done,
\* otherwise a partial result, a final result or a parse error
ProcessAudioOutcomes ==
    IF ctxDone THEN {ErrOutcome}
    ELSE [kind : {"partial", "final"}, text : Texts] \cup {ErrOutcome}

\* the open utterance after ProcessAudio returned out
EngineAfterProcessAudio(out) ==
    IF ctxDone THEN engineAudio
    ELSE IF out.kind = "final" THEN 0
    ELSE engineAudio + 1

\* what FinalResult may return: the text of the open utterance, which is
\* empty when no audio was accepted for it, or a parse error
FinalResultOutcomes ==
    [kind : {"final"}, text : IF engineAudio = 0 THEN {""} ELSE Texts]
        \cup {ErrOutcome}

\* the open utterance after FinalResult
EngineKeepsUtterance == engineAudio
EngineAfterFinalResult == 0

\* VoskEngine.Reset changes nothing
EngineAfterReset(audio) == audio

(***************************************************************************)
(* Transcriber.Run: the continuous orchestrator                            *)
(***************************************************************************)
Formats == {"console", "json", "text"}

\* frames a session is fed: 0.0122 (speech at threshold 0.01) and 0
LoudFrame == <<144, 1>>
SilentFrame == <<0, 0>>
RunFrameSet == {LoudFrame, SilentFrame}

\* int(t.config.VADSilenceDelay * 33.33), the delay given in milliseconds
SilenceFramesFor(delayMs) == (delayMs * 3333) \div 100000

\* silence delays a session is configured with, in milliseconds
RunDelays == {31, 61}

InitRun ==
    /\ engineAudio = 0
    /\ runPc = "init"
    /\ format = "console"
    /\ lastPartialText = ""
    /\ transcriptionCount = 0
    /\ finals = <<>>
    /\ stepCalls = <<>>
    /\ lastOut = NoOutcome
    /\ runFrames = 0
    /\ runErrors = 0
    /\ frCalls = 0
    /\ paSinceFinal = 0
    /\ emittedPartial = ""
    /\ utterPartials = <<>>
    /\ mcpPc = "idle"
    /\ mcpSpeechStarted = FALSE
    /\ mcpSilenceCount = 0
    /\ mcpBuffer = 0

\* the VADConfig Run builds from its configuration
RunVADConfig(thr, delayMs) ==
    [EnergyThreshold |-> thr,
     SilenceFrames |-> SilenceFramesFor(delayMs),
     SpeechFrames |-> DefaultSpeechFrames]

\* Run up to the loop: the formatter is chosen, the VAD is made if enabled
RunStart(fmt, enableVAD, cfg) ==
    /\ runPc = "init"
    /\ runPc' = "loop"
    /\ format' = fmt
    /\ IF enableVAD
         THEN NewVAD(cfg)
         ELSE UNCHANGED <<vadVars, vadObsVars, capVars, obsVars>>
    /\ UNCHANGED <<engineAudio, lastPartialText, transcriptionCount,
                   runObsVars>>

\* a final transcript written to the sink: numbered with the counter
Final(index, text, origin) == [index |-> index, text |-> text, origin |-> origin]

\* if !isSpeaking { continue }
GateSkipsNever(ret) == FALSE
GateSkips(ret) == ~ret.isSpeaking

\* lastPartialText after a VAD boundary
LastPartialKept == lastPartialText
LastPartialAfterBoundary == ""

\* the handling of what ProcessAudio returned: the new lastPartialText, the
\* new transcriptionCount and the sink calls made
AfterFailedCallClears ==
    [lastPartialText |-> "", count |-> transcriptionCount, calls |-> <<>>]
\* if err != nil { statusOut.Error(...); continue }
AfterFailedCall ==
    [lastPartialText |-> lastPartialText, count |-> transcriptionCount,
     calls |-> <<>>]

\* a partial text is written: it is not empty and not the last one written
PartialIsNewAlways(text) == text # ""
\* if result.Partial && result.Text != "" { if result.Text != lastPartialText
PartialIsNew(text) == text # "" /\ text # lastPartialText

HandleResult(out) ==
    IF out.kind = "err"
      THEN AfterFailedCall
    ELSE IF out.kind = "nil"
      THEN \* if result == nil { continue }
           [lastPartialText |-> lastPartialText,
            count |-> transcriptionCount, calls |-> <<>>]
    ELSE IF out.kind = "partial"
      THEN IF PartialIsNew(out.text)
             THEN [lastPartialText |-> out.text,
                   count |-> transcriptionCount, calls |-> <<"WritePartial">>]
             ELSE [lastPartialText |-> lastPartialText,
                   count |-> transcriptionCount, calls |-> <<>>]
    ELSE IF out.text # ""
      THEN [lastPartialText |-> "",
            count |-> transcriptionCount + 1, calls |-> <<"WriteResult">>]
      ELSE [lastPartialText |-> lastPartialText,
            count |-> transcriptionCount, calls |-> <<>>]

\* case sample, ok := <-capturer.Samples(): one frame through the loop body
RunFrame(data, out) ==
    /\ runPc = "loop"
    /\ runFrames' = runFrames + 1
    /\ IF vad = "set"
         THEN ProcessFrame(data)
         ELSE UNCHANGED <<vadVars, vadObsVars, capVars, obsVars>>
    /\ LET pre == IF vad = "set"
                    THEN IF vadRet'.speechStarted
                           THEN <<"ProcessFrame", "WriteEvent">>
                           ELSE <<"ProcessFrame">>
                    ELSE <<>>
       IN  IF vad = "set" /\ vadRet'.speechEnded
             THEN \* finalize the utterance: FinalResult, emit, Reset
                  /\ out \in FinalResultOutcomes
                  /\ LET emit == out.kind = "final" /\ out.text # ""
                     IN  /\ transcriptionCount' =
                                IF emit THEN transcriptionCount + 1
                                ELSE transcriptionCount
                         /\ finals' =
                                IF emit
                                  THEN Append(finals,
                                         Final(transcriptionCount + 1,
                                               out.text, "vad"))
                                  ELSE finals
                         /\ stepCalls' =
                                pre \o <<"WriteEvent", "FinalResult">>
                                    \o (IF emit THEN <<"WriteResult">> ELSE <<>>)
                                    \o <<"Reset">>
                  /\ engineAudio' = EngineAfterReset(EngineAfterFinalResult)
                  /\ lastPartialText' = LastPartialAfterBoundary
                  /\ frCalls' = frCalls + 1
                  /\ paSinceFinal' = 0
                  /\ emittedPartial' = ""
                  /\ utterPartials' = <<>>
           ELSE IF vad = "set" /\ GateSkips(vadRet')
             THEN \* skip processing during silence
                  /\ out = NoOutcome
                  /\ stepCalls' = pre
                  /\ UNCHANGED <<engineAudio, lastPartialText,
                                 transcriptionCount, finals, frCalls,
                                 paSinceFinal, emittedPartial, utterPartials>>
           ELSE \* engine.ProcessAudio(ctx, sample.Data)
                /\ out \in ProcessAudioOutcomes
                /\ engineAudio' = EngineAfterProcessAudio(out)
                /\ paSinceFinal' = paSinceFinal + 1
                /\ LET h == HandleResult(out)
                   IN  /\ lastPartialText' = h.lastPartialText
                       /\ transcriptionCount' = h.count
                       /\ stepCalls' = pre \o <<"ProcessAudio">> \o h.calls
                       /\ finals' =
                            IF h.count # transcriptionCount
                              THEN Append(finals,
                                          Final(h.count, out.text, "audio"))
                              ELSE finals
                       /\ emittedPartial' =
                            IF h.calls = <<"WritePartial">> THEN out.text
                            ELSE IF h.calls = <<"WriteResult">> THEN ""
                            ELSE emittedPartial
                       /\ utterPartials' =
                            IF h.calls = <<"WritePartial">>
                              THEN Append(utterPartials, out.text)
                            ELSE IF h.calls = <<"WriteResult">> THEN <<>>
                            ELSE utterPartials
                /\ UNCHANGED frCalls
    /\ lastOut' = out
    /\ UNCHANGED <<runPc, format, runErrors>>

\* case err, ok := <-capturer.Errors(): the error is reported, the loop goes on
RunError ==
    /\ runPc = "loop"
    /\ runErrors < MaxRunErrors
    /\ runErrors' = runErrors + 1
    /\ stepCalls' = <<"Error">>
    /\ lastOut' = NoOutcome
    /\ UNCHANGED <<runVars, finals, runFrames, frCalls, paSinceFinal,
                   emittedPartial, utterPartials>>
    /\ UNCHANGED <<vadVars, vadObsVars, capVars, obsVars>>

\* the sink calls of the cancellation branch after FinalResult
CancelCallsNoFlush(emit) == IF emit THEN <<"WriteResult">> ELSE <<>>
CancelCalls(emit) ==
    (IF emit THEN <<"WriteResult">> ELSE <<>>)
        \o (IF format # "console" THEN <<"Flush">> ELSE <<>>)

\* case <-ctx.Done(): FinalResult, emit, flush, return nil
RunCancel(out) ==
    /\ runPc = "loop"
    /\ ctxDone
    /\ out \in FinalResultOutcomes
    /\ LET emit == out.kind = "final" /\ out.text # ""
       IN  /\ transcriptionCount' =
                IF emit /\ format # "console" THEN transcriptionCount + 1
                ELSE transcriptionCount
           /\ finals' =
                IF emit
                  THEN Append(finals,
                              Final(IF format # "console"
                                      THEN transcriptionCount + 1 ELSE 0,
                                    out.text, "cancel"))
                  ELSE finals
           /\ stepCalls' = <<"FinalResult">> \o CancelCalls(emit)
           /\ emittedPartial' = IF emit THEN "" ELSE emittedPartial
           /\ utterPartials' = IF emit THEN <<>> ELSE utterPartials
    /\ engineAudio' = EngineAfterFinalResult
    /\ frCalls' = frCalls + 1
    /\ paSinceFinal' = 0
    /\ lastOut' = out
    /\ runPc' = "stopped"
    /\ UNCHANGED <<format, lastPartialText, runFrames, runErrors>>
    /\ UNCHANGED <<vadVars, vadObsVars, capVars, obsVars>>

\* a continuous session; frames and capture errors arrive as the producer
\* and the consumer's select make them arrive.  The two "!ok" returns of
\* the loop need a closed channel, and the channels are closed only at the
\* end of a Stop call of the owner, which Run defers to its return.
RunNext ==
    /\ \/ \E fmt \in Formats, thr \in {DefaultEnergyThreshold}, d \in RunDelays :
            RunStart(fmt, TRUE, RunVADConfig(thr, d))
       \/ \E fmt \in Formats : RunStart(fmt, FALSE, ZeroVADConfig)
       \/ \E f \in RunFrameSet, out \in Outcomes :
            runFrames < MaxRunFrames /\ RunFrame(f, out)
       \/ RunError
       \/ (Cancel /\ UNCHANGED <<vadVars, vadObsVars, runVars, runObsVars>>)
       \/ \E out \in Outcomes : RunCancel(out)
    /\ UNCHANGED <<pttVars, pttObsVars, mcpVars, setupVars, grpcVars, ringVars>>


(***************************************************************************)
(* PTTTranscriber: push-to-talk mode.  The hotkey goroutine sends toggles  *)
(* on toggleChan, the main loop of Run handles them one at a time, and a   *)
(* collector goroutine appends frames while a session records.  A session  *)
(* uses a fresh capturer; NewCapturer+Start and Stop are taken by their    *)
(* outcome here, their steps being those of the capturer above.            *)
(***************************************************************************)
\* toggleChan := make(chan bool, 10)
ToggleChanCap == 10
\* chunkSize := 480 * 2
chunkSize == 480 * 2
\* bytes of one captured frame: the period the device honours
FrameByteSizes == {640, 960}

\* an entry of the log of a session's calls; from/to are the byte range of
\* the buffer passed to ProcessAudio
Call(name) == [call |-> name, from |-> 0, to |-> 0]
\* how a session ended: what was reported, and the transcript if any
Outcome(kind, index, text) == [kind |-> kind, index |-> index, text |-> text]

InitPTT ==
    /\ pttPc = "idle"
    /\ pttRecording = FALSE
    /\ pttBuffer = <<>>
    /\ pttMain = "off"
    /\ toggleChan = <<>>
    /\ hkRecording = FALSE
    /\ hkPc = "select"
    /\ capturerRunning = FALSE
    /\ pttReplayPos = 0
    /\ pttTranscriptCount = 0
    /\ pttFrameBytes = 960
    /\ hkSent = 0
    /\ pttHandled = <<>>
    /\ pttCalls = <<>>
    /\ pttOutcomes = <<>>
    /\ pttAccepted = <<>>

unchangedByPTT ==
    UNCHANGED <<vadVars, vadObsVars, mcpVars, setupVars, grpcVars, ringVars, runPc,
                format, lastPartialText, transcriptionCount, finals, lastOut,
                frCalls, paSinceFinal, emittedPartial, utterPartials,
                runFrames>>

\* the capturer variables left alone by a step that is not the capturer's
capturerUntouched == UNCHANGED <<capVars, obsVars>>

\* Run up to the main loop: engine initialised, hotkey listener started
PTTRunStart ==
    /\ pttMain = "off"
    /\ pttMain' = "select"
    /\ UNCHANGED <<pttPc, pttRecording, pttBuffer, toggleChan, hkRecording, hkPc,
                   capturerRunning, pttReplayPos, pttTranscriptCount,
                   pttFrameBytes, pttObsVars>>
    /\ UNCHANGED <<engineAudio, stepCalls, runErrors>>
    /\ capturerUntouched
    /\ unchangedByPTT

\* HotkeyManager, case <-h.hk.Keydown(): h.recording is flipped under h.mu
RecordingAfterKeyDownSet == TRUE
RecordingAfterKeyDown == ~hkRecording

KeyDown ==
    /\ pttMain \notin {"off", "returned"}
    /\ hkPc = "select"
    /\ hkRecording' = RecordingAfterKeyDown
    /\ hkPc' = "call"
    /\ UNCHANGED <<pttPc, pttRecording, pttBuffer, pttMain, toggleChan,
                   capturerRunning, pttReplayPos, pttTranscriptCount,
                   pttFrameBytes, pttObsVars>>
    /\ UNCHANGED <<engineAudio, stepCalls, runErrors>>
    /\ capturerUntouched
    /\ unchangedByPTT

\* h.onToggle(recording) after h.mu.Unlock(): the callback sends the value
\* on toggleChan (and blocks while the channel is full)
OnToggle ==
    /\ hkPc = "call"
    /\ Len(toggleChan) < ToggleChanCap
    /\ toggleChan' = Append(toggleChan, hkRecording)
    /\ hkSent' = hkSent + 1
    /\ hkPc' = "select"
    /\ UNCHANGED <<pttPc, pttRecording, pttBuffer, pttMain, hkRecording,
                   capturerRunning, pttReplayPos, pttTranscriptCount,
                   pttFrameBytes, pttHandled, pttCalls, pttOutcomes,
                   pttAccepted>>
    /\ UNCHANGED <<engineAudio, stepCalls, runErrors>>
    /\ capturerUntouched
    /\ unchangedByPTT

\* audio.NewCapturer(p.audioConfig) and p.capturer.Start(ctx) succeeded
CapturerStarted(cfg) ==
    /\ config' = cfg
    /\ samples' = <<>>
    /\ errors' = <<>>
    /\ closed' = [c \in Channels |-> 0]
    /\ running' = TRUE
    /\ device' = "started"
    /\ malgoContext' = "init"
    /\ wg' = 1
    /\ pc' = [pc EXCEPT !["owner"] = "idle", !["monitor"] = "select"]
    /\ UNCHANGED <<ctxDone, stopRet, stopCalls, panicked, teardowns, obsVars>>

\* p.capturer.Stop() returned: the device no longer delivers
CapturerStopped ==
    /\ running' = FALSE
    /\ device' = IF device = "started" THEN "uninit" ELSE device
    /\ malgoContext' = IF malgoContext = "init" THEN "freed" ELSE malgoContext
    /\ UNCHANGED <<config, samples, errors, closed, wg, pc, ctxDone, stopRet,
                   stopCalls, panicked, teardowns, obsVars>>

\* case recording := <-toggleChan, recording true: a new session starts
PTTToggleRecording(cfg, bytes) ==
    /\ pttMain = "select"
    /\ toggleChan # <<>>
    /\ Head(toggleChan) = TRUE
    /\ toggleChan' = Tail(toggleChan)
    /\ pttHandled' = Append(pttHandled, TRUE)
    /\ pttBuffer' = <<>>
    /\ engineAudio' = EngineAfterReset(engineAudio)
    /\ CapturerStarted(cfg)
    /\ pttFrameBytes' = bytes
    /\ capturerRunning' = TRUE
    /\ pttRecording' = TRUE
    /\ pttPc' = "collecting"
    /\ pttCalls' = <<Call("Reset"), Call("Start")>>
    /\ pttAccepted' = <<>>
    /\ stepCalls' = <<"Reset">>
    /\ UNCHANGED <<pttMain, hkRecording, hkPc, pttReplayPos, pttTranscriptCount,
                   hkSent, pttOutcomes, runErrors>>
    /\ unchangedByPTT

\* the same toggle when NewCapturer or Start fails: the error is reported
\* and the loop continues
PTTToggleRecordingFails ==
    /\ pttMain = "select"
    /\ toggleChan # <<>>
    /\ Head(toggleChan) = TRUE
    /\ toggleChan' = Tail(toggleChan)
    /\ pttHandled' = Append(pttHandled, TRUE)
    /\ pttBuffer' = <<>>
    /\ engineAudio' = EngineAfterReset(engineAudio)
    /\ pttCalls' = <<Call("Reset"), Call("StartFailed")>>
    /\ pttAccepted' = <<>>
    /\ stepCalls' = <<"Reset", "Error">>
    /\ UNCHANGED <<pttPc, pttRecording, pttMain, hkRecording, hkPc, capturerRunning,
                   pttReplayPos, pttTranscriptCount, pttFrameBytes, hkSent,
                   pttOutcomes, runErrors>>
    /\ capturerUntouched
    /\ unchangedByPTT

\* the capture callback during push-to-talk; a frame accepted into the
\* channel while the session records is one the session should keep
PTTDeviceDelivers(limit) ==
    /\ DeviceDelivers(limit)
    /\ pttAccepted' = IF pttRecording /\ lastPush' = "accepted"
                        THEN Append(pttAccepted, captured + 1)
                        ELSE pttAccepted
    /\ UNCHANGED <<pttPc, pttRecording, pttBuffer, pttMain, toggleChan,
                   hkRecording, hkPc, capturerRunning, pttReplayPos,
                   pttTranscriptCount, pttFrameBytes, hkSent, pttHandled,
                   pttCalls, pttOutcomes>>
    /\ UNCHANGED <<engineAudio, stepCalls, runErrors>>
    /\ unchangedByPTT

\* what the collector may read from p.recording: the main loop writes the
\* field and the collector reads it with no synchronisation between them, so
\* after the write of false the read may still return the earlier true
RecordingAsRead == IF pttRecording THEN {TRUE} ELSE {TRUE, FALSE}

\* case sample, ok := <-p.capturer.Samples(): return when not recording,
\* otherwise append the frame
PTTSample(seen) ==
    /\ pttPc = "collecting"
    /\ seen \in RecordingAsRead
    /\ RecvSample
    /\ IF ~seen
         THEN /\ pttPc' = "returned"
              /\ stepCalls' = <<"Return">>
              /\ UNCHANGED pttBuffer
         ELSE /\ pttBuffer' = Append(pttBuffer, Head(samples))
              /\ stepCalls' = <<>>
              /\ UNCHANGED pttPc
    /\ UNCHANGED <<pttRecording, pttMain, toggleChan, hkRecording, hkPc,
                   capturerRunning, pttReplayPos, pttTranscriptCount,
                   pttFrameBytes, pttObsVars>>
    /\ UNCHANGED <<engineAudio, runErrors>>
    /\ unchangedByPTT

\* case err, ok := <-p.capturer.Errors(): report it
PTTError ==
    /\ pttPc = "collecting"
    /\ runErrors' = runErrors + 1
    /\ stepCalls' = <<"Error">>
    /\ UNCHANGED <<pttVars, pttObsVars, engineAudio>>
    /\ capturerUntouched
    /\ unchangedByPTT

\* case <-ctx.Done(): return
PTTCtxDone ==
    /\ pttPc = "collecting"
    /\ ctxDone
    /\ pttPc' = "returned"
    /\ stepCalls' = <<"Return">>
    /\ UNCHANGED <<pttRecording, pttBuffer, pttMain, toggleChan, hkRecording, hkPc,
                   capturerRunning, pttReplayPos, pttTranscriptCount,
                   pttFrameBytes, pttObsVars>>
    /\ UNCHANGED <<engineAudio, runErrors>>
    /\ capturerUntouched
    /\ unchangedByPTT

\* case recording := <-toggleChan, recording false: p.recording = false,
\* then p.wg.Wait()
PTTToggleIdle ==
    /\ pttMain = "select"
    /\ toggleChan # <<>>
    /\ Head(toggleChan) = FALSE
    /\ toggleChan' = Tail(toggleChan)
    /\ pttHandled' = Append(pttHandled, FALSE)
    /\ pttRecording' = FALSE
    /\ pttMain' = "idle_wait"
    /\ UNCHANGED <<pttPc, pttBuffer, hkRecording, hkPc, capturerRunning,
                   pttReplayPos, pttTranscriptCount, pttFrameBytes, hkSent,
                   pttCalls, pttOutcomes, pttAccepted>>
    /\ UNCHANGED <<engineAudio, stepCalls, runErrors>>
    /\ capturerUntouched
    /\ unchangedByPTT

\* len(p.audioBuffer)
BufferBytes == Len(pttBuffer) * pttFrameBytes

\* p.wg.Wait() can return: no collector is alive
CollectorExitedNoWait == TRUE
CollectorExited == pttPc # "collecting"

\* p.wg.Wait() returns once the collector has exited; then the capturer is
\* stopped, and an empty buffer is reported as "no audio recorded"
PTTIdleStop ==
    /\ pttMain = "idle_wait"
    /\ CollectorExited
    /\ IF capturerRunning
         THEN /\ CapturerStopped
              /\ pttCalls' = Append(pttCalls, Call("Stop"))
         ELSE /\ capturerUntouched
              /\ UNCHANGED pttCalls
    /\ capturerRunning' = FALSE
    /\ pttReplayPos' = 0
    /\ IF BufferBytes > 0
         THEN /\ pttMain' = "replay"
              /\ UNCHANGED pttOutcomes
         ELSE /\ pttMain' = "select"
              /\ pttOutcomes' = Append(pttOutcomes, Outcome("no_audio", 0, ""))
    /\ UNCHANGED <<pttPc, pttRecording, pttBuffer, toggleChan, hkRecording, hkPc,
                   pttTranscriptCount, pttFrameBytes, hkSent, pttHandled,
                   pttAccepted>>
    /\ UNCHANGED <<engineAudio, stepCalls, runErrors>>
    /\ unchangedByPTT

\* the end of the chunk that starts at byte i
ChunkEnd(i) == IF i + chunkSize > BufferBytes THEN BufferBytes ELSE i + chunkSize

\* transcribe returns the error of a failed ProcessAudio: back to the select
ReplayAfterError == "select"

\* transcribe: one iteration of the chunk loop
PTTReplayChunk(out) ==
    /\ pttMain = "replay"
    /\ pttReplayPos < BufferBytes
    /\ out \in ProcessAudioOutcomes
    /\ engineAudio' = EngineAfterProcessAudio(out)
    /\ pttCalls' = Append(pttCalls, [call |-> "ProcessAudio",
                                     from |-> pttReplayPos,
                                     to |-> ChunkEnd(pttReplayPos)])
    /\ IF out.kind = "err"
         THEN \* return "", err: "Transcription error"
              /\ pttMain' = ReplayAfterError
              /\ pttOutcomes' = Append(pttOutcomes, Outcome("error", 0, ""))
              /\ UNCHANGED pttReplayPos
         ELSE /\ pttReplayPos' = pttReplayPos + chunkSize
              /\ UNCHANGED <<pttMain, pttOutcomes>>
    /\ UNCHANGED <<pttPc, pttRecording, pttBuffer, toggleChan, hkRecording, hkPc,
                   capturerRunning, pttTranscriptCount, pttFrameBytes, hkSent,
                   pttHandled, pttAccepted>>
    /\ UNCHANGED <<stepCalls, runErrors>>
    /\ capturerUntouched
    /\ unchangedByPTT

\* p.transcriptCount after transcribe returned what FinalResult gave
TranscriptCountAfterAlways(out) == pttTranscriptCount + 1
\* else if result != "" { p.transcriptCount++ ... }
TranscriptCountAfter(out) ==
    IF out.kind # "err" /\ out.text # ""
      THEN pttTranscriptCount + 1
      ELSE pttTranscriptCount

\* transcribe: p.engine.FinalResult() after the loop, and the report
PTTReplayFinal(out) ==
    /\ pttMain = "replay"
    /\ pttReplayPos >= BufferBytes
    /\ out \in FinalResultOutcomes
    /\ engineAudio' = EngineAfterFinalResult
    /\ pttCalls' = Append(pttCalls, Call("FinalResult"))
    /\ pttMain' = "select"
    /\ pttTranscriptCount' = TranscriptCountAfter(out)
    /\ pttOutcomes' =
         Append(pttOutcomes,
                IF out.kind = "err" THEN Outcome("error", 0, "")
                ELSE IF out.text # ""
                  THEN Outcome("transcript", TranscriptCountAfter(out),
                               out.text)
                  ELSE Outcome("no_speech", 0, ""))
    /\ UNCHANGED <<pttPc, pttRecording, pttBuffer, toggleChan, hkRecording, hkPc,
                   capturerRunning, pttReplayPos, pttFrameBytes, hkSent,
                   pttHandled, pttAccepted>>
    /\ UNCHANGED <<stepCalls, runErrors>>
    /\ capturerUntouched
    /\ unchangedByPTT

\* case <-ctx.Done() of the main loop: p.recording = false, then p.wg.Wait()
PTTMainCtxDone ==
    /\ pttMain = "select"
    /\ ctxDone
    /\ pttRecording' = FALSE
    /\ pttMain' = "ctx_wait"
    /\ UNCHANGED <<pttPc, pttBuffer, toggleChan, hkRecording, hkPc, capturerRunning,
                   pttReplayPos, pttTranscriptCount, pttFrameBytes, pttObsVars>>
    /\ UNCHANGED <<engineAudio, stepCalls, runErrors>>
    /\ capturerUntouched
    /\ unchangedByPTT

\* the collector has exited: stop the capturer if it runs, return nil
PTTMainReturn ==
    /\ pttMain = "ctx_wait"
    /\ CollectorExited
    /\ IF capturerRunning THEN CapturerStopped ELSE capturerUntouched
    /\ pttMain' = "returned"
    /\ UNCHANGED <<pttPc, pttRecording, pttBuffer, toggleChan, hkRecording, hkPc,
                   capturerRunning, pttReplayPos, pttTranscriptCount,
                   pttFrameBytes, pttObsVars>>
    /\ UNCHANGED <<engineAudio, stepCalls, runErrors>>
    /\ unchangedByPTT

\* the goroutines of push-to-talk mode
PTTMainLoop ==
    \/ \E cfg \in Profiles, bytes \in FrameByteSizes :
            PTTToggleRecording(cfg, bytes)
    \/ PTTToggleRecordingFails
    \/ PTTToggleIdle
    \/ PTTIdleStop
    \/ \E out \in Outcomes : PTTReplayChunk(out)
    \/ \E out \in Outcomes : PTTReplayFinal(out)
    \/ PTTMainCtxDone
    \/ PTTMainReturn

PTTCollector ==
    \/ \E seen \in BOOLEAN : PTTSample(seen)
    \/ (runErrors < MaxRunErrors /\ PTTError)
    \/ PTTCtxDone

PTTNext ==
    \/ PTTRunStart
    \/ (hkSent < MaxToggles /\ KeyDown)
    \/ OnToggle
    \/ PTTDeviceDelivers(MaxPTTFrames)
    \/ PTTMainLoop
    \/ PTTCollector

(***************************************************************************)
(* Server.handleTranscribeAudio: the MCP live-capture handler              *)
(***************************************************************************)
\* audio.DefaultVADConfig()
DefaultVADConfig ==
    [EnergyThreshold |-> DefaultEnergyThreshold,
     SilenceFrames |-> 33 * 8,
     SpeechFrames |-> DefaultSpeechFrames]

\* the VADConfig of the handler: the default with the threshold of the call
MCPVADConfig(thr) == [DefaultVADConfig EXCEPT !.EnergyThreshold = thr]

unchangedByHandler ==
    UNCHANGED <<runVars, pttVars, pttObsVars, setupVars, grpcVars, ringVars, finals,
                lastOut, frCalls, paSinceFinal, emittedPartial, utterPartials>>

\* the handler up to its loop: NewVAD, capturer.Start
MCPStart(thr) ==
    /\ mcpPc = "idle"
    /\ mcpPc' = "loop"
    /\ NewVAD(MCPVADConfig(thr))
    /\ mcpSpeechStarted' = FALSE
    /\ mcpSilenceCount' = 0
    /\ mcpBuffer' = 0
    /\ UNCHANGED <<stepCalls, runFrames, runErrors>>
    /\ unchangedByHandler

\* case sample := <-capturer.Samples()
MCPSample(data) ==
    /\ mcpPc = "loop"
    /\ runFrames' = runFrames + 1
    /\ mcpBuffer' = mcpBuffer + 1
    /\ ProcessFrame(data)
    /\ LET started == mcpSpeechStarted \/ vadRet'.isSpeaking
           ended == vadRet'.speechEnded /\ started
       IN  /\ mcpSpeechStarted' = started
           /\ mcpSilenceCount' = IF ended THEN mcpSilenceCount + 1
                                 ELSE mcpSilenceCount
           /\ mcpPc' = IF ended /\ mcpSilenceCount + 1 >= 1
                         THEN "transcribe" ELSE "loop"
    /\ stepCalls' = <<"ProcessFrame">>
    /\ UNCHANGED runErrors
    /\ unchangedByHandler

\* case err := <-capturer.Errors(): return the error
MCPError ==
    /\ mcpPc = "loop"
    /\ runErrors' = runErrors + 1
    /\ mcpPc' = "returned"
    /\ stepCalls' = <<"Return">>
    /\ UNCHANGED <<mcpSpeechStarted, mcpSilenceCount, mcpBuffer, runFrames>>
    /\ UNCHANGED <<vadVars, vadObsVars, capVars, obsVars>>
    /\ unchangedByHandler

\* case <-ctx.Done(): return ctx.Err()
MCPCtxDone ==
    /\ mcpPc = "loop"
    /\ ctxDone
    /\ mcpPc' = "returned"
    /\ stepCalls' = <<"Return">>
    /\ UNCHANGED <<mcpSpeechStarted, mcpSilenceCount, mcpBuffer, runFrames,
                   runErrors>>
    /\ UNCHANGED <<vadVars, vadObsVars, capVars, obsVars>>
    /\ unchangedByHandler

MCPNext ==
    \/ \E thr \in Thresholds \cup {DefaultEnergyThreshold} : MCPStart(thr)
    \/ \E f \in RunFrameSet : runFrames < MaxRunFrames /\ MCPSample(f)
    \/ (runErrors < MaxRunErrors /\ MCPError)
    \/ MCPCtxDone

(***************************************************************************)
(* Session setup: the capture profile of a model, the VAD silence delay    *)
(***************************************************************************)
\* a string is kept as the sequence of its characters
SmallModelName ==
    <<"v", "o", "s", "k", "-", "m", "o", "d", "e", "l", "-", "s", "m", "a",
      "l", "l", "-", "e", "n", "-", "u", "s", "-", "0", ".", "1", "5">>
LgraphModelName ==
    <<"v", "o", "s", "k", "-", "m", "o", "d", "e", "l", "-", "e", "n", "-",
      "u", "s", "-", "0", ".", "2", "2", "-", "l", "g", "r", "a", "p", "h">>
LargeModelName ==
    <<"v", "o", "s", "k", "-", "m", "o", "d", "e", "l", "-", "e", "n", "-",
      "u", "s", "-", "0", ".", "2", "2">>

\* the model names explored: the three reference models, the large and the
\* lgraph model in other letter cases, names with "medium" and "large"
ModelNames ==
    {SmallModelName, LgraphModelName, LargeModelName,
     <<"V", "O", "S", "K", "-", "M", "O", "D", "E", "L", "-", "E", "N", "-", "U", "S", "-", "0", ".", "2", "2">>,
     <<"V", "o", "s", "k", "-", "M", "o", "d", "e", "l", "-", "e", "n", "-", "u", "s", "-", "0", ".", "2", "2", "-", "L", "G", "r", "a", "p", "h">>,
     <<"m", "y", "-", "M", "e", "d", "i", "u", "m", "-", "m", "o", "d", "e", "l">>,
     <<"v", "o", "s", "k", "-", "m", "o", "d", "e", "l", "-", "e", "n", "-", "u", "s", "-", "0", ".", "2", "2", "-", "m", "e", "d", "i", "u", "m">>,
     <<"l", "a", "r", "g", "e">>,
     <<"l", "g", "r", "a", "p", "h">>,
     <<>>}

UpperLetters == <<"A", "B", "C", "D", "E", "F", "G", "H", "I", "J", "K", "L", "M", "N", "O", "P", "Q", "R", "S", "T", "U", "V", "W", "X", "Y", "Z">>
LowerLetters == <<"a", "b", "c", "d", "e", "f", "g", "h", "i", "j", "k", "l", "m", "n", "o", "p", "q", "r", "s", "t", "u", "v", "w", "x", "y", "z">>

\* strings.ToLower
ToLower(str) ==
    [i \in 1..Len(str) |->
        IF \E k \in 1..Len(UpperLetters) : UpperLetters[k] = str[i]
          THEN LowerLetters[CHOOSE k \in 1..Len(UpperLetters) :
                                UpperLetters[k] = str[i]]
          ELSE str[i]]

\* strings.Contains
Contains(str, substr) ==
    \E i \in 0..(Len(str) - Len(substr)) :
        SubSeq(str, i + 1, i + Len(substr)) = substr

\* getAudioConfigForModel without the test that sets the lgraph model apart
getAudioConfigForModelByVersion(name) ==
    IF Contains(ToLower(name), LargeModelName)
      THEN LargeModelConfig
      ELSE DefaultConfig

\* getAudioConfigForModel: the capture profile of a model name
getAudioConfigForModel(name) ==
    LET modelLower == ToLower(name)
    IN  IF /\ Contains(modelLower, LargeModelName)
           /\ ~Contains(modelLower, <<"l", "g", "r", "a", "p", "h">>)
          THEN LargeModelConfig
        ELSE IF \/ Contains(modelLower, <<"l", "g", "r", "a", "p", "h">>)
                \/ Contains(modelLower, <<"m", "e", "d", "i", "u", "m">>)
          THEN MediumModelConfig
        ELSE DefaultConfig

\* CaptureConfig.BufferFrames and CaptureConfig.SampleRate of every profile
BufferFrames == 480
SampleRate == 16000

\* the audio a channel of n frames holds, in milliseconds
ChannelMillis(n) == (n * BufferFrames * 1000) \div SampleRate

\* int(params.VADSilenceDelay * 33.33) of the MCP transcription service, the
\* delay in milliseconds
MCPSilenceFramesFor(delayMs) == (delayMs * 3333) \div 100000

\* silence delays a session can be configured with, in milliseconds
SetupDelays == {0, 29, 30, 31, 60, 61, 300, 310, 1000, 1500, 3000, 3001}

NoSilence == [delay |-> 0, SilenceFrames |-> -1]

InitSetup ==
    /\ modelName = <<>>
    /\ audioConfig = 0
    /\ appSilence = NoSilence
    /\ mcpSilence = NoSilence

\* audioConfig := getAudioConfigForModel(selectedModel)
SelectModel(name) ==
    /\ modelName' = name
    /\ audioConfig' = getAudioConfigForModel(name)
    /\ UNCHANGED <<appSilence, mcpSilence>>

\* Transcriber.Run: vadConfig.SilenceFrames of the silence delay
AppSilenceFrames(delayMs) ==
    /\ appSilence' = [delay |-> delayMs,
                      SilenceFrames |-> SilenceFramesFor(delayMs)]
    /\ UNCHANGED <<modelName, audioConfig, mcpSilence>>

\* TranscriptionService.TranscribeAudio: the same conversion
MCPSilenceFrames(delayMs) ==
    /\ mcpSilence' = [delay |-> delayMs,
                      SilenceFrames |-> MCPSilenceFramesFor(delayMs)]
    /\ UNCHANGED <<modelName, audioConfig, appSilence>>

SetupNext ==
    /\ \/ \E name \in ModelNames : SelectModel(name)
       \/ \E d \in SetupDelays : AppSilenceFrames(d)
       \/ \E d \in SetupDelays : MCPSilenceFrames(d)
    /\ UNCHANGED <<capVars, obsVars, vadVars, vadObsVars, runVars, runObsVars,
                   pttVars, pttObsVars, mcpVars, grpcVars, ringVars>>

(***************************************************************************)
(* STTService: the gRPC transcription service                              *)
(***************************************************************************)
\* the Transcribe streams of one server
Streams == {1, 2}

\* NewServer: one engine, handed to the one STTService
InitGrpc ==
    /\ grpcPc = [s \in Streams |-> "idle"]
    /\ grpcEngine = <<>>
    /\ grpcChunks = 0
    /\ grpcFed = {}
    /\ grpcSent = <<>>

\* the elements of a sequence
Elements(seq) == {seq[i] : i \in 1..Len(seq)}

\* stream.Send of a result, with the streams whose audio the text is of
Sent(s, isFinal, sources) ==
    [stream |-> s, final |-> isFinal, sources |-> sources]

\* a client opens a Transcribe stream
GrpcOpen(s) ==
    /\ grpcPc[s] = "idle"
    /\ grpcPc' = [grpcPc EXCEPT ![s] = "open"]
    /\ UNCHANGED <<grpcEngine, grpcChunks, grpcFed, grpcSent>>

\* default: chunk received, s.engine.ProcessAudio under s.mu, the result
\* sent when its text is not empty
GrpcChunk(s, out) ==
    /\ grpcPc[s] = "open"
    /\ out \in [kind : {"partial", "final"}, text : Texts] \cup {ErrOutcome}
    /\ grpcChunks' = grpcChunks + 1
    /\ grpcFed' = grpcFed \cup {s}
    /\ LET utterance == Append(grpcEngine, s)
       IN  /\ grpcEngine' = IF out.kind = "final" THEN <<>> ELSE utterance
           /\ grpcSent' =
                IF out.kind # "err" /\ out.text # ""
                  THEN Append(grpcSent,
                              Sent(s, out.kind = "final", Elements(utterance)))
                  ELSE grpcSent
    /\ grpcPc' = IF out.kind = "err"
                   THEN [grpcPc EXCEPT ![s] = "returned"]
                   ELSE grpcPc

\* io.EOF from Recv, or ctx.Done(): s.engine.FinalResult under s.mu, the
\* result sent when its text is not empty, and the stream returns
GrpcFinish(s, out) ==
    /\ grpcPc[s] = "open"
    /\ out \in [kind : {"final"},
                text : IF grpcEngine = <<>> THEN {""} ELSE Texts]
                    \cup {ErrOutcome}
    /\ grpcEngine' = <<>>
    /\ grpcSent' =
         IF out.kind # "err" /\ out.text # ""
           THEN Append(grpcSent, Sent(s, TRUE, Elements(grpcEngine)))
           ELSE grpcSent
    /\ grpcPc' = [grpcPc EXCEPT ![s] = "returned"]
    /\ UNCHANGED <<grpcChunks, grpcFed>>

\* Recv fails with another error: the stream returns it
GrpcRecvError(s) ==
    /\ grpcPc[s] = "open"
    /\ grpcPc' = [grpcPc EXCEPT ![s] = "returned"]
    /\ UNCHANGED <<grpcEngine, grpcChunks, grpcFed, grpcSent>>

GrpcNext ==
    /\ \/ \E s \in Streams : GrpcOpen(s)
       \/ \E s \in Streams, out \in Outcomes :
            grpcChunks < MaxGrpcChunks /\ GrpcChunk(s, out)
       \/ \E s \in Streams, out \in Outcomes : GrpcFinish(s, out)
       \/ \E s \in Streams : GrpcRecvError(s)
    /\ UNCHANGED <<capVars, obsVars, vadVars, vadObsVars, runVars, runObsVars,
                   pttVars, pttObsVars, mcpVars, setupVars, ringVars>>

(***************************************************************************)
(* RingBuffer (internal/audio/buffer.go)                                   *)
(***************************************************************************)

\* the goroutines that call the buffer's methods
RingThreads == {"g1", "g2"}

RingBytes == 0..MaxRingByte

\* the data of a Write call
RingData == UNION {[1..n -> RingBytes] : n \in 0..MaxRingData}

\* a method call with its arguments: the data of Write, len(data) of Read
RingCallOf(name, data, n) == [name |-> name, data |-> data, n |-> n]

NoRingCall == RingCallOf("none", <<>>, 0)

RingCalls ==
    {RingCallOf("Write", d, 0) : d \in RingData}
        \cup {RingCallOf("Read", <<>>, n) : n \in 0..MaxRingData}
        \cup {RingCallOf(q, <<>>, 0) :
                q \in {"Reset", "Available", "Free", "IsFull", "IsEmpty"}}

\* what a call returned: a count, an error, a boolean
RingRet(name, n, err, b) == [name |-> name, n |-> n, err |-> err, b |-> b]

InitRing ==
    /\ rbSize = 0
    /\ rbBuffer = <<>>
    /\ rbWritePos = 0
    /\ rbReadPos = 0
    /\ rbFull = FALSE
    /\ rwWriter = "none"
    /\ rwReaders = [t \in RingThreads |-> 0]
    /\ rbPc = [t \in RingThreads |-> "idle"]
    /\ rbOp = [t \in RingThreads |-> NoRingCall]
    /\ rbAccepted = <<>>
    /\ rbReadOut = <<>>
    /\ rbRet = RingRet("none", 0, FALSE, FALSE)
    /\ rbCalls = 0

\* NewRingBuffer(size): a zeroed buffer of size bytes
NewRingBuffer(size) ==
    /\ rbSize = 0
    /\ rbSize' = size
    /\ rbBuffer' = [i \in 0..(size - 1) |-> 0]
    /\ UNCHANGED <<rbWritePos, rbReadPos, rbFull, rwWriter, rwReaders, rbPc,
                   rbOp, ringObsVars>>

\* Size()
Size == rbSize

\* (pos + 1) % rb.size
NextPos(p) == (p + 1) % rbSize

\* Write's loop stops, with the buffer full, when writePos reaches readPos
WriteStopsNever(wp) == FALSE
WriteStops(wp) == wp = rbReadPos

\* the loop of Write over data
RECURSIVE WriteLoop(_, _)
WriteLoop(st, data) ==
    IF data = <<>>
      THEN st
      ELSE LET wp == NextPos(st.writePos)
               st1 == [buffer |-> [st.buffer EXCEPT ![st.writePos] = Head(data)],
                       writePos |-> wp,
                       bytesWritten |-> st.bytesWritten + 1,
                       full |-> WriteStops(wp)]
           IN  IF st1.full THEN st1 ELSE WriteLoop(st1, Tail(data))

\* the loop of Read over a slice of k bytes
RECURSIVE ReadLoop(_, _)
ReadLoop(st, k) ==
    IF k = 0
      THEN st
      ELSE LET rp == NextPos(st.readPos)
               st1 == [out |-> Append(st.out, rbBuffer[st.readPos]),
                       readPos |-> rp,
                       full |-> FALSE]
           IN  IF rp = rbWritePos THEN st1 ELSE ReadLoop(st1, k - 1)

\* Available(), under the read lock
AvailableNoWrap == IF rbFull THEN rbSize ELSE rbWritePos - rbReadPos
Available ==
    IF rbFull
      THEN rbSize
      ELSE IF rbWritePos >= rbReadPos
             THEN rbWritePos - rbReadPos
             ELSE rbSize - rbReadPos + rbWritePos

\* Free(), under the read lock
Free == IF rbFull THEN 0 ELSE rbSize - Available

\* IsFull()
IsFull == rbFull

\* IsEmpty()
IsEmpty == rbReadPos = rbWritePos /\ ~rbFull

\* a goroutine calls a method of the buffer
RingCall(t, op) ==
    /\ rbSize > 0
    /\ rbPc[t] = "idle"
    /\ rbOp' = [rbOp EXCEPT ![t] = op]
    /\ rbPc' = [rbPc EXCEPT ![t] =
                  IF op.name \in {"Write", "Read", "Reset"}
                    THEN "lock" ELSE "rlock"]
    /\ rbCalls' = rbCalls + 1
    /\ UNCHANGED <<ringState, rwWriter, rwReaders, rbAccepted, rbReadOut,
                   rbRet>>

\* rb.mu.Lock(): the writer announces itself, which holds back every later
\* RLock, and then waits for the readers that hold the lock
MuLock(t) ==
    /\ rbPc[t] = "lock"
    /\ rwWriter = "none"
    /\ rwWriter' = t
    /\ rbPc' = [rbPc EXCEPT ![t] = "lock_wait"]
    /\ UNCHANGED <<ringState, rwReaders, rbOp, ringObsVars>>

\* rb.mu.Lock() returns when no reader holds the lock
MuLocked(t) ==
    /\ rbPc[t] = "lock_wait"
    /\ \A r \in RingThreads : rwReaders[r] = 0
    /\ rbPc' = [rbPc EXCEPT ![t] = "locked"]
    /\ UNCHANGED <<ringState, rwWriter, rwReaders, rbOp, ringObsVars>>

\* the call of t returns: its deferred Unlock or RUnlock runs
RingReturns(t, ret) ==
    /\ rbPc' = [rbPc EXCEPT ![t] = "idle"]
    /\ rbOp' = [rbOp EXCEPT ![t] = NoRingCall]
    /\ rbRet' = ret
    /\ IF rwWriter = t
         THEN rwWriter' = "none" /\ UNCHANGED rwReaders
         ELSE /\ rwReaders' = [rwReaders EXCEPT ![t] = 0]
              /\ UNCHANGED rwWriter
    /\ UNCHANGED <<rbSize, rbCalls>>

\* Write(data), under the lock
RingWrite(t) ==
    /\ rbPc[t] = "locked"
    /\ rbOp[t].name = "Write"
    /\ IF rbFull
         THEN /\ RingReturns(t, RingRet("Write", 0, TRUE, FALSE))
              /\ UNCHANGED <<rbBuffer, rbWritePos, rbReadPos, rbFull,
                             rbAccepted, rbReadOut>>
         ELSE LET st == WriteLoop([buffer |-> rbBuffer,
                                   writePos |-> rbWritePos,
                                   bytesWritten |-> 0,
                                   full |-> FALSE], rbOp[t].data)
              IN  /\ rbBuffer' = st.buffer
                  /\ rbWritePos' = st.writePos
                  /\ rbFull' = st.full
                  /\ rbAccepted' = rbAccepted
                                     \o SubSeq(rbOp[t].data, 1, st.bytesWritten)
                  /\ RingReturns(t, RingRet("Write", st.bytesWritten, FALSE,
                                            FALSE))
                  /\ UNCHANGED <<rbReadPos, rbReadOut>>

\* Read(data), under the lock
RingRead(t) ==
    /\ rbPc[t] = "locked"
    /\ rbOp[t].name = "Read"
    /\ IF IsEmpty
         THEN /\ RingReturns(t, RingRet("Read", 0, FALSE, FALSE))
              /\ UNCHANGED <<rbBuffer, rbWritePos, rbReadPos, rbFull,
                             rbAccepted, rbReadOut>>
         ELSE LET st == ReadLoop([out |-> <<>>,
                                  readPos |-> rbReadPos,
                                  full |-> rbFull], rbOp[t].n)
              IN  /\ rbReadPos' = st.readPos
                  /\ rbFull' = st.full
                  /\ rbReadOut' = rbReadOut \o st.out
                  /\ RingReturns(t, RingRet("Read", Len(st.out), FALSE, FALSE))
                  /\ UNCHANGED <<rbBuffer, rbWritePos, rbAccepted>>

\* Reset(), under the lock
RingReset(t) ==
    /\ rbPc[t] = "locked"
    /\ rbOp[t].name = "Reset"
    /\ rbReadPos' = 0
    /\ rbWritePos' = 0
    /\ rbFull' = FALSE
    /\ rbAccepted' = <<>>
    /\ rbReadOut' = <<>>
    /\ RingReturns(t, RingRet("Reset", 0, FALSE, FALSE))
    /\ UNCHANGED rbBuffer

\* rb.mu.RLock(): held back while a writer has announced itself
MuRLock(t) ==
    /\ rbPc[t] = "rlock"
    /\ rwWriter = "none"
    /\ rwReaders' = [rwReaders EXCEPT ![t] = @ + 1]
    /\ rbPc' = [rbPc EXCEPT ![t] = "rlocked"]
    /\ UNCHANGED <<ringState, rwWriter, rbOp, ringObsVars>>

\* Available(), IsFull(), IsEmpty() under the read lock
RingQuery(t) ==
    /\ rbPc[t] = "rlocked"
    /\ rbOp[t].name \in {"Available", "IsFull", "IsEmpty"}
    /\ RingReturns(t, CASE rbOp[t].name = "Available" ->
                             RingRet("Available", Available, FALSE, FALSE)
                        [] rbOp[t].name = "IsFull" ->
                             RingRet("IsFull", 0, FALSE, IsFull)
                        [] rbOp[t].name = "IsEmpty" ->
                             RingRet("IsEmpty", 0, FALSE, IsEmpty))
    /\ UNCHANGED <<rbBuffer, rbWritePos, rbReadPos, rbFull, rbAccepted,
                   rbReadOut>>

\* Free() under the read lock: 0 when full, else it goes on to call
\* rb.Available()
RingFree(t) ==
    /\ rbPc[t] = "rlocked"
    /\ rbOp[t].name = "Free"
    /\ IF rbFull
         THEN /\ RingReturns(t, RingRet("Free", 0, FALSE, FALSE))
              /\ UNCHANGED <<rbBuffer, rbWritePos, rbReadPos, rbFull,
                             rbAccepted, rbReadOut>>
         ELSE /\ rbPc' = [rbPc EXCEPT ![t] = "free_rlock"]
              /\ UNCHANGED <<ringState, rwWriter, rwReaders, rbOp,
                             ringObsVars>>

\* Free's rb.Available(): a second RLock by the goroutine that holds the
\* first, held back like any RLock while a writer has announced itself;
\* then Available and Free return and both read locks are released
RingFreeAvailable(t) ==
    /\ rbPc[t] = "free_rlock"
    /\ rwWriter = "none"
    /\ RingReturns(t, RingRet("Free", rbSize - Available, FALSE, FALSE))
    /\ UNCHANGED <<rbBuffer, rbWritePos, rbReadPos, rbFull, rbAccepted,
                   rbReadOut>>

\* the steps of a call of goroutine t after the call was made
RingStep(t) ==
    \/ MuLock(t)
    \/ MuLocked(t)
    \/ RingWrite(t)
    \/ RingRead(t)
    \/ RingReset(t)
    \/ MuRLock(t)
    \/ RingQuery(t)
    \/ RingFree(t)
    \/ RingFreeAvailable(t)

RingNext ==
    /\ \/ \E size \in 1..MaxRingSize : NewRingBuffer(size)
       \/ \E t \in RingThreads, op \in RingCalls :
            rbCalls < MaxRingOps /\ RingCall(t, op)
       \/ \E t \in RingThreads : RingStep(t)
    /\ UNCHANGED <<capVars, obsVars, vadVars, vadObsVars, runVars, runObsVars,
                   pttVars, pttObsVars, mcpVars, setupVars, grpcVars>>

(***************************************************************************)
(* Specifications                                                          *)
(***************************************************************************)
Init ==
    /\ InitCap
    /\ InitVAD
    /\ InitRun
    /\ InitPTT
    /\ InitSetup
    /\ InitGrpc
    /\ InitRing

\* the capturer over its whole life: construction, Start, capture, Stop
Next == CapNext /\ UNCHANGED <<vadVars, vadObsVars, sessVars>>

Spec == Init /\ [][Next]_vars

\* every goroutine that can run does run; the owner need not call Stop, the
\* device need not deliver and the consumer need not read
FairSpec ==
    /\ Spec
    /\ WF_vars(Monitor /\ UNCHANGED <<vadVars, vadObsVars, sessVars>>)
    /\ WF_vars(Stop("owner") /\ UNCHANGED <<vadVars, vadObsVars, sessVars>>)

\* the burst scenario: the device delivers BurstFrames frames while nobody
\* reads, then the consumer drains both channels
BurstNext ==
    /\ panicked = "none"
    /\ \/ \E cfg \in Profiles : NewMalgoCapturer(cfg)
       \/ StartLock
       \/ StartInitContext
       \/ StartInitContextFail
       \/ StartDevice
       \/ StartDeviceFail
       \/ StartMonitor
       \/ DeviceDelivers(BurstFrames)
       \/ (captured = BurstFrames /\ RecvSample)
       \/ (captured = BurstFrames /\ RecvError)
       \/ Cancel
       \/ CallStop
       \/ Stop("owner")
       \/ Monitor
    /\ UNCHANGED <<vadVars, vadObsVars, sessVars>>

SpecBurst == Init /\ [][BurstNext]_vars

\* the VAD fed an arbitrary frame sequence
VADNext ==
    /\ \/ \E cfg \in VADConfigs : NewVAD(cfg)
       \/ \E f \in FrameSet : vadCalls < MaxVADFrames /\ ProcessFrame(f)
       \/ VADReset
    /\ UNCHANGED sessVars

SpecVAD == Init /\ [][VADNext]_vars

SpecRun == Init /\ [][RunNext]_vars

\* the select of the loop takes the ctx.Done() case in the end
FairSpecRun ==
    SpecRun /\ WF_vars((\E out \in Outcomes : RunCancel(out))
                            /\ UNCHANGED <<pttVars, pttObsVars, mcpVars, setupVars, grpcVars, ringVars>>)

\* the scenario: threshold 0.01, SpeechFrames 3, a silence delay of 0.31 s
\* (10 frames), ScenarioLoud loud frames then ScenarioSilent silent ones; the
\* recognizer returns partial results or errors from ProcessAudio and the
\* text "hello" from FinalResult
ScenarioFrame(n) == IF n <= ScenarioLoud THEN LoudFrame ELSE SilentFrame

ScenarioNext ==
    /\ \/ \E fmt \in Formats :
            RunStart(fmt, TRUE, RunVADConfig(DefaultEnergyThreshold, 310))
       \/ \E out \in Outcomes :
            /\ runFrames < ScenarioLoud + ScenarioSilent
            /\ RunFrame(ScenarioFrame(runFrames + 1), out)
            /\ IF frCalls' = frCalls
                 THEN out.kind # "final"
                 ELSE out = [kind |-> "final", text |-> "hello"]
    /\ UNCHANGED <<pttVars, pttObsVars, mcpVars, setupVars, grpcVars, ringVars>>

SpecScenario == Init /\ [][ScenarioNext]_vars

\* the three consumer loops of the frame source; a process runs one of them
ConsumersNext ==
    \/ (pttMain = "off" /\ mcpPc = "idle" /\ RunNext)
    \/ (runPc = "init" /\ mcpPc = "idle" /\ PTTNext)
    \/ (runPc = "init" /\ pttMain = "off" /\ MCPNext)
    \/ /\ pttMain # "off" \/ mcpPc # "idle"
       /\ Cancel
       /\ UNCHANGED <<vadVars, vadObsVars, sessVars>>

SpecConsumers == Init /\ [][ConsumersNext]_vars

\* push-to-talk mode: the hotkey goroutine, the main loop, the collector and
\* the capture callback, with cancellation
PTTModeNext ==
    \/ PTTNext
    \/ (Cancel /\ UNCHANGED <<vadVars, vadObsVars, sessVars>>)

SpecPTT == Init /\ [][PTTModeNext]_vars

\* EnergyThreshold values outside the documented range 0.001 to 0.1: 0 and
\* 0.125
BadThresholds == {[num |-> 0, den |-> 1], [num |-> 4096, den |-> 1]}

\* continuous sessions configured with a threshold outside the range
BadConfigNext ==
    /\ \/ \E fmt \in Formats, thr \in BadThresholds, d \in RunDelays :
            RunStart(fmt, TRUE, RunVADConfig(thr, d))
       \/ \E f \in RunFrameSet, out \in Outcomes :
            runFrames < MaxRunFrames /\ RunFrame(f, out)
       \/ RunError
       \/ (Cancel /\ UNCHANGED <<vadVars, vadObsVars, runVars, runObsVars>>)
       \/ \E out \in Outcomes : RunCancel(out)
    /\ UNCHANGED <<pttVars, pttObsVars, mcpVars, setupVars, grpcVars, ringVars>>

SpecBadConfig == Init /\ [][BadConfigNext]_vars

\* one capturer over several Start and Stop calls
RestartNext ==
    /\ \/ CapNext
       \/ (panicked = "none" /\ CallStart)
    /\ UNCHANGED <<vadVars, vadObsVars, sessVars>>

SpecRestart == Init /\ [][RestartNext]_vars

\* the gRPC service with its Transcribe streams
SpecGrpc == Init /\ [][GrpcNext]_vars

\* the setup of a session: the profile of the model, the VAD silence delay
SpecSetup == Init /\ [][SetupNext]_vars

(***************************************************************************)
(* Properties                                                              *)
(***************************************************************************)
Range(q) == {q[i] : i \in 1..Len(q)}

StrictlyIncreasing(q) == \A i, j \in 1..Len(q) : i < j => q[i] < q[j]

\* C12: in the scenario the VAD reports speechJustStarted on the 3rd loud
\* frame and on no other, speechJustEnded on the 10th silent frame after the
\* loud ones and on no other, and the session emits exactly one final
\* transcript, with index 1 and text "hello", at that boundary.
C12_Scenario ==
    runFrames >= 1 =>
        /\ vadRet.speechStarted <=> runFrames = 3
        /\ vadRet.speechEnded <=> runFrames = ScenarioLoud + 10
        /\ finals = IF runFrames < ScenarioLoud + 10 THEN <<>>
                    ELSE <<Final(1, "hello", "vad")>>
        /\ transcriptionCount = Len(finals)

C12_Witness ==
    /\ runFrames = ScenarioLoud + ScenarioSilent
    /\ finals = <<Final(1, "hello", "vad")>>
    /\ vadConfig.SilenceFrames = 10

\* a step of the loop that read a frame with the VAD enabled and passed the
\* frame to ProcessAudio
FrameToProcessAudio ==
    /\ runFrames' = runFrames + 1
    /\ vad = "set"
    /\ "ProcessAudio" \in Range(stepCalls')

\* C13: with the VAD enabled, ProcessAudio is never called with a frame for
\* which the VAD call on that same frame returned isSpeaking = false.
C13_GateOnIsSpeaking ==
    [][FrameToProcessAudio => vadRet'.isSpeaking]_vars

\* a loud frame in the Silent state, before the speech run reaches
\* SpeechFrames: the VAD returned false and the frame was skipped
C13_Witness ==
    /\ vad = "set"
    /\ runFrames >= 1
    /\ runPc = "loop"
    /\ vadFrame = LoudFrame
    /\ ~vadRet.isSpeaking
    /\ stepCalls = <<"ProcessFrame">>

\* C14 as stated: with the VAD enabled no frame the VAD classifies as
\* silence is passed to ProcessAudio, in any state of the VAD.
C14_SilentNeverSent ==
    [][FrameToProcessAudio => FrameHasSpeech(vadFrame')]_vars

\* C14: with the VAD enabled a frame the VAD classifies as silence is passed
\* to ProcessAudio only inside an utterance: the VAD was Speaking before the
\* frame and is Speaking after it, and the silence run, this frame included,
\* is shorter than SilenceFrames.  In the Silent state none is passed.
C14_SilentSentOnlyWhileSpeaking ==
    [][(FrameToProcessAudio /\ ~FrameHasSpeech(vadFrame'))
        => /\ isSpeaking
           /\ isSpeaking'
           /\ silenceRun' < vadConfig.SilenceFrames]_vars

\* a silent frame inside an utterance went to ProcessAudio
C14_Witness ==
    /\ vad = "set"
    /\ runFrames >= 1
    /\ vadFrame = SilentFrame
    /\ isSpeaking
    /\ silenceRun = 1
    /\ "ProcessAudio" \in Range(stepCalls)

\* the engine and transcript calls among the calls of a step
IsEngineOrSinkCall(c) ==
    c \in {"ProcessAudio", "FinalResult", "WriteResult", "Reset", "Flush"}
EngineAndSinkCalls(calls) == SelectSeq(calls, IsEngineOrSinkCall)

\* a result that is emitted as a final transcript
HasText(out) == out.kind = "final" /\ out.text # ""

\* C15: on every speechJustEnded the loop calls FinalResult exactly once,
\* then emits the result as a final transcript iff its text is non-empty,
\* then calls Reset; the tracked partial text is cleared and the loop goes to
\* the next frame without passing the triggering frame to ProcessAudio.
C15_BoundaryFinalizes ==
    [][(runFrames' = runFrames + 1 /\ vad = "set" /\ vadRet'.speechEnded)
        => /\ EngineAndSinkCalls(stepCalls') =
                <<"FinalResult">>
                    \o (IF HasText(lastOut') THEN <<"WriteResult">> ELSE <<>>)
                    \o <<"Reset">>
           /\ frCalls' = frCalls + 1
           /\ Len(finals') = Len(finals) + (IF HasText(lastOut') THEN 1 ELSE 0)
           /\ HasText(lastOut') => finals'[Len(finals')].text = lastOut'.text
           /\ lastPartialText' = ""
           /\ runPc' = "loop"]_vars

\* a boundary whose FinalResult had text, after a partial had been tracked
C15_Witness ==
    /\ vad = "set"
    /\ vadRet.speechEnded
    /\ stepCalls = <<"ProcessFrame", "WriteEvent", "FinalResult",
                     "WriteResult", "Reset">>
    /\ lastPartialText = ""
    /\ finals = <<Final(1, "hello", "vad")>>

\* C16: in every output format the k-th final transcript a session emits
\* carries index k, whether it comes from ProcessAudio, from a VAD boundary
\* or from the FinalResult at cancellation.
C16_FinalsNumberedFromOne ==
    \A k \in 1..Len(finals) : finals[k].index = k

\* C17: the step that handles cancellation calls FinalResult exactly once,
\* emits the result iff its text is non-empty, flushes the formatter and
\* stops; once stopped the session makes no further ProcessAudio, FinalResult
\* or sink call; and a cancelled running session does reach the stop.
C17_CancelFinalizesAndStops ==
    /\ [][(runPc = "loop" /\ runPc' = "stopped")
            => /\ ctxDone
               /\ EngineAndSinkCalls(stepCalls') =
                    <<"FinalResult">>
                        \o (IF HasText(lastOut') THEN <<"WriteResult">> ELSE <<>>)
                        \o (IF format # "console" THEN <<"Flush">> ELSE <<>>)
               /\ frCalls' = frCalls + 1
               /\ Len(finals') =
                    Len(finals) + (IF HasText(lastOut') THEN 1 ELSE 0)
               /\ HasText(lastOut')
                    => finals'[Len(finals')].text = lastOut'.text]_vars
    /\ [][runPc = "stopped"
            => UNCHANGED <<runPc, stepCalls, frCalls, finals, runFrames,
                           paSinceFinal, engineAudio>>]_vars
    /\ ((ctxDone /\ runPc = "loop") ~> (runPc = "stopped"))

\* a cancelled session that emitted the text of its FinalResult and flushed
C17_Witness ==
    /\ runPc = "stopped"
    /\ ctxDone
    /\ runFrames >= 1
    /\ stepCalls = <<"FinalResult", "WriteResult", "Flush">>
    /\ finals[Len(finals)].origin = "cancel"

\* C18: a failing ProcessAudio call does not end the session, and leaves the
\* VAD state (isSpeaking and both counters), the tracked partial text and the
\* transcript counter as they would be had the call returned no result: the
\* VAD state is the one ProcessFrame computed for the frame, the partial text
\* and the counter are unchanged and nothing is emitted.
C18_FailedCallLeavesState ==
    [][(runFrames' = runFrames + 1
            /\ "ProcessAudio" \in Range(stepCalls')
            /\ lastOut'.kind = "err")
        => /\ runPc' = "loop"
           /\ lastPartialText' = HandleResult(NilOutcome).lastPartialText
           /\ transcriptionCount' = HandleResult(NilOutcome).count
           /\ lastPartialText' = lastPartialText
           /\ transcriptionCount' = transcriptionCount
           /\ finals' = finals
           /\ EngineAndSinkCalls(stepCalls') = <<"ProcessAudio">>
           /\ IF vad = "set"
                THEN /\ isSpeaking' = vadRet'.isSpeaking
                     /\ speechFrameCount' =
                            SpeechCountAfter(FrameHasSpeech(vadFrame'))
                     /\ silenceFrameCount' =
                            SilenceCountAfter(FrameHasSpeech(vadFrame'))
                ELSE UNCHANGED vadVars]_vars

\* a failed call inside an utterance, with a partial text being tracked
C18_Witness ==
    /\ runPc = "loop"
    /\ lastOut = ErrOutcome
    /\ "ProcessAudio" \in Range(stepCalls)
    /\ vad = "set"
    /\ isSpeaking
    /\ lastPartialText = "hello"
    /\ ~ctxDone

ConsumerRunning ==
    runPc = "loop" \/ pttPc = "collecting" \/ mcpPc = "loop"

\* C19: an error read from the error channel never ends the session: in
\* each consumer loop (Run, the push-to-talk collector, the MCP handler) the
\* step that reads the error reports it and leaves the loop reading.
C19_CaptureErrorNotFatal ==
    [][runErrors' = runErrors + 1
        => /\ ConsumerRunning'
           /\ stepCalls' = <<"Error">>]_vars

\* the main loop has taken a toggle-to-idle as its last toggle
IdleToggleTaken ==
    pttHandled # <<>> /\ ~pttHandled[Len(pttHandled)]

\* the handling of that toggle is complete: the session has ended
SessionEnded == IdleToggleTaken /\ pttMain = "select"

IsEngineCall(c) == c.call \in {"ProcessAudio", "FinalResult"}
IsTranscript(o) == o.kind = "transcript"

\* C21: a session that is toggled to Idle while the frame source has put no
\* frame on its channel calls neither ProcessAudio nor FinalResult, and ends
\* as "no audio recorded" with the transcript counter unchanged.
C21_EmptySessionNoAudio ==
    (IdleToggleTaken /\ pttAccepted = <<>>)
        => /\ SelectSeq(pttCalls, IsEngineCall) = <<>>
           /\ SessionEnded
                => /\ pttOutcomes[Len(pttOutcomes)].kind = "no_audio"
                   /\ pttTranscriptCount =
                        Len(SelectSeq(pttOutcomes, IsTranscript))

\* C22: when the replay of a session starts, the session buffer holds, in
\* order, exactly the frames the frame source accepted into its channel
\* between toggle-to-recording and toggle-to-idle.
C22_AllRecordedFramesKept ==
    (pttMain = "replay" \/ SessionEnded) => pttBuffer = pttAccepted

\* the ProcessAudio calls that replay a buffer of n bytes in order in chunks
\* of 960 bytes, the last one possibly shorter
ReplayOf(n) ==
    [k \in 1..((n + 959) \div 960) |->
        [call |-> "ProcessAudio",
         from |-> (k - 1) * 960,
         to |-> IF k * 960 > n THEN n ELSE k * 960]]

\* C23: a toggle-to-idle with a non-empty session buffer stops the frame
\* source, then passes the whole buffer to ProcessAudio in order in chunks
\* of 960 bytes (only the last may be shorter), then calls FinalResult once.
C23_StopReplayFinal ==
    (SessionEnded /\ pttBuffer # <<>>)
        => pttCalls = <<Call("Reset"), Call("Start"), Call("Stop")>>
                        \o ReplayOf(BufferBytes)
                        \o <<Call("FinalResult")>>

\* the toggles-to-idle the main loop has taken
IsIdleToggle(r) == ~r
IdleToggles == Len(SelectSeq(pttHandled, IsIdleToggle))

\* what holds of the outcomes of the sessions, whatever their kinds: one
\* outcome per ended session, an empty buffer reported as "no audio
\* recorded" and nothing else so reported, an empty final text as "no speech
\* detected", a non-empty one as a transcript, the transcripts numbered 1,
\* 2, 3, ... and the counter equal to their number
OutcomesConsistent ==
    /\ SessionEnded =>
        /\ Len(pttOutcomes) = IdleToggles
        /\ LET o == pttOutcomes[Len(pttOutcomes)]
               last == pttCalls[Len(pttCalls)]
           IN  /\ o.kind = "no_audio" <=> pttBuffer = <<>>
               /\ o.kind \in {"no_speech", "transcript"}
                    => last = Call("FinalResult")
               /\ o.kind = "no_speech" => o.text = ""
               /\ o.kind = "transcript" => o.text # ""
    /\ LET ts == SelectSeq(pttOutcomes, IsTranscript)
       IN  /\ \A k \in 1..Len(ts) : ts[k].index = k
           /\ pttTranscriptCount = Len(ts)

\* C24 as stated: every session ends in one of three outcomes, "no audio
\* recorded", "no speech detected" or a numbered transcript.
C24_ThreeOutcomes ==
    /\ OutcomesConsistent
    /\ \A i \in 1..Len(pttOutcomes) :
            pttOutcomes[i].kind \in {"no_audio", "no_speech", "transcript"}

\* C24: every session whose toggle-to-idle is handled ends in exactly one
\* of four outcomes: an empty buffer is "no audio recorded"; a failed
\* recognizer call of the replay is a transcription error; an empty final
\* text is "no speech detected"; a non-empty final text is one transcript
\* with the next index.  The counter changes only in the last case.
C24_FourOutcomes ==
    /\ OutcomesConsistent
    /\ \A i \in 1..Len(pttOutcomes) :
            pttOutcomes[i].kind
                \in {"no_audio", "no_speech", "transcript", "error"}
    /\ (SessionEnded /\ pttOutcomes[Len(pttOutcomes)].kind = "error")
            => pttBuffer # <<>>

\* two sessions ended, the first with a transcript, the second in error
C24_Witness ==
    /\ SessionEnded
    /\ Len(pttOutcomes) = 2
    /\ pttOutcomes[1] = Outcome("transcript", 1, "hello")
    /\ pttOutcomes[2].kind = "error"

\* the toggles the hotkey manager sends: recording, idle, recording, ...
ToggleSequence(n) == [i \in 1..n |-> i % 2 = 1]

\* C25: sessions are serialized.  A toggle is taken from the head of the
\* channel, and only by the main loop in its select, never during a replay;
\* the toggles handled followed by the toggles waiting are the toggles sent,
\* in order; a session starts only when no capturer runs and no collector
\* is alive; and during a replay the capturer is stopped and the collector
\* has exited.
C25_SessionsSerialized ==
    [][/\ pttHandled' # pttHandled
            => /\ pttMain = "select"
               /\ toggleChan # <<>>
               /\ pttHandled' = Append(pttHandled, Head(toggleChan))
               /\ toggleChan' = Tail(toggleChan)
       /\ pttHandled' \o toggleChan' = ToggleSequence(hkSent')
       /\ pttHandled' = Append(pttHandled, TRUE)
            => ~running /\ ~capturerRunning /\ pttPc # "collecting"
       /\ pttMain' = "replay"
            => ~running' /\ pttPc' # "collecting" /\ ~pttRecording'
      ]_vars

\* two toggles arrived while the first session is being replayed
C25_Witness ==
    /\ pttMain = "replay"
    /\ pttReplayPos > 0
    /\ pttHandled = <<TRUE, FALSE>>
    /\ toggleChan = <<TRUE, FALSE>>

\* C26: getAudioConfigForModel gives every model name one of the three
\* profiles; vosk-model-small-en-us-0.15 gets 50 frames (1.5 s of audio),
\* vosk-model-en-us-0.22-lgraph 150 frames (4.5 s) and vosk-model-en-us-0.22
\* 300 frames (9 s).
C26_ModelTiers ==
    audioConfig # 0
        => /\ audioConfig \in Profiles
           /\ audioConfig = getAudioConfigForModel(modelName)
           /\ modelName = SmallModelName
                => audioConfig = 50 /\ ChannelMillis(audioConfig) = 1500
           /\ modelName = LgraphModelName
                => audioConfig = 150 /\ ChannelMillis(audioConfig) = 4500
           /\ modelName = LargeModelName
                => audioConfig = 300 /\ ChannelMillis(audioConfig) = 9000

\* the lgraph model was selected and got the medium profile
C26_Witness ==
    /\ modelName = LgraphModelName
    /\ audioConfig = MediumModelConfig

\* the duration of a frame in milliseconds: 480 samples at 16000 Hz
FrameMillis == (BufferFrames * 1000) \div SampleRate

\* C29: SilenceFrames is the silence delay divided by the frame duration,
\* truncated: floor(d / 30 ms) for every delay d, in the continuous
\* orchestrator and in the MCP transcriber alike.
C29_SilenceFramesIsFloor ==
    /\ appSilence # NoSilence
         => appSilence.SilenceFrames = appSilence.delay \div FrameMillis
    /\ mcpSilence # NoSilence
         => mcpSilence.SilenceFrames = mcpSilence.delay \div FrameMillis
    /\ (appSilence # NoSilence /\ mcpSilence # NoSilence
            /\ appSilence.delay = mcpSilence.delay)
         => appSilence.SilenceFrames = mcpSilence.SilenceFrames

\* 0.001 <= thr <= 0.1, thr in units of 1/32768
ThresholdInRange(thr) ==
    /\ thr.num * 1000 >= 32768 * thr.den
    /\ thr.num * 10 <= 32768 * thr.den

\* C27: a continuous session configured with a VAD threshold outside 0.001
\* to 0.1 fails at its start: Run does not enter its loop and no frame is
\* processed for it.
C27_BadThresholdIsFatal ==
    (vad = "set" /\ ~ThresholdInRange(vadConfig.EnergyThreshold))
        => runPc # "loop" /\ runFrames = 0

\* C28: a recognizer is not shared across sessions: the audio passed to one
\* recognizer comes from one session only, the open utterance never holds
\* chunks of two sessions, and a result sent to a session holds that
\* session's audio only.
C28_RecognizerNotShared ==
    /\ Cardinality(grpcFed) <= 1
    /\ \A i, j \in 1..Len(grpcEngine) : grpcEngine[i] = grpcEngine[j]
    /\ \A k \in 1..Len(grpcSent) :
            grpcSent[k].sources \subseteq {grpcSent[k].stream}

\* the step passed a frame to ProcessAudio, which returned a partial result
PartialReturned ==
    /\ runFrames' = runFrames + 1
    /\ paSinceFinal' = paSinceFinal + 1
    /\ lastOut'.kind = "partial"

\* the step handled a frame and wrote a partial to the sink
PartialWritten ==
    /\ runFrames' = runFrames + 1
    /\ \E i \in 1..Len(stepCalls') : stepCalls'[i] = "WritePartial"

\* C30: in continuous mode a partial result is emitted if and only if its
\* text is not empty and differs from the last partial emitted since the
\* last final transcript or VAD boundary; so a partial emitted right after
\* another, with no final or boundary between, has another text.
C30_PartialEmittedIffNew ==
    [][/\ PartialReturned
            => (PartialWritten
                    <=> (lastOut'.text # "" /\ lastOut'.text # emittedPartial))
       /\ PartialWritten
            => /\ PartialReturned
               /\ emittedPartial' = lastOut'.text
               /\ emittedPartial' # emittedPartial
      ]_vars

\* a partial was written, and the same text returned again was not
C30_Witness ==
    /\ runPc = "loop"
    /\ emittedPartial = "hello"
    /\ lastOut = [kind |-> "partial", text |-> "hello"]
    /\ stepCalls = <<"ProcessAudio">>

\* C31 as stated: within one utterance every text is written as a partial
\* at most once.
C31_OnePartialPerText ==
    \A i, j \in 1..Len(utterPartials) :
        utterPartials[i] = utterPartials[j] => i = j

\* C31: within one utterance no partial is written with the text of the
\* partial written just before it; a text that returns after another text
\* was written is written again.
C31_NoPartialRepeatsItsPredecessor ==
    [][/\ \A i \in 1..(Len(utterPartials') - 1) :
            utterPartials'[i] # utterPartials'[i + 1]
       /\ \A i \in 1..Len(utterPartials') : utterPartials'[i] # ""
       /\ (PartialReturned /\ lastOut'.text # ""
                /\ (utterPartials = <<>>
                        \/ utterPartials[Len(utterPartials)] # lastOut'.text))
            => utterPartials' = Append(utterPartials, lastOut'.text)
      ]_vars

\* the recognizer returned to an earlier text, which was written again
C31_Witness ==
    /\ runPc = "loop"
    /\ utterPartials = <<"hello", "world", "hello">>

\* C32: after every ProcessFrame call at most one of the two counters is
\* not zero: a frame with speech leaves silenceFrameCount at 0, a frame
\* without leaves speechFrameCount at 0, and each counter is the length of
\* the current run of frames so classified since the last Reset.
C32_OneCounterRuns ==
    /\ speechFrameCount = 0 \/ silenceFrameCount = 0
    /\ speechFrameCount = speechRun
    /\ silenceFrameCount = silenceRun
    /\ lastSpeechDetection => silenceFrameCount = 0 /\ speechFrameCount > 0
    /\ (vadCalls > 0 /\ ~FrameHasSpeech(vadFrame)) => speechFrameCount = 0

\* a run of two frames with speech after a frame without
C32_Witness ==
    /\ vadCalls = 3
    /\ lastSpeechDetection
    /\ speechFrameCount = 2
    /\ silenceFrameCount = 0

\* C33: the VAD state is reset at utterance boundaries: after the
\* ProcessFrame call that returned speechJustEnded, and until the next
\* frame is read, the VAD state is the initial state (both counters 0, not
\* speaking).
C33_VADResetAtBoundary ==
    (runPc = "loop" /\ vad = "set" /\ vadRet.speechEnded)
        => /\ speechFrameCount = 0
           /\ silenceFrameCount = 0
           /\ ~isSpeaking
           /\ ~lastSpeechDetection

\* C34: utterances never overlap.  No ProcessFrame call returns both
\* speechJustStarted and speechJustEnded; speechJustStarted comes with
\* isSpeakingNow true and speechJustEnded with false; and the start and end
\* events alternate, beginning with a start: a start comes when as many
\* ends as starts were returned, an end when one start more, so at most one
\* utterance is open.
C34_UtterancesNeverOverlap ==
    [][vadCalls' = vadCalls + 1
        => /\ ~(vadRet'.speechStarted /\ vadRet'.speechEnded)
           /\ vadRet'.speechStarted
                => vadRet'.isSpeaking /\ vadStarts = vadEnds
           /\ vadRet'.speechEnded
                => ~vadRet'.isSpeaking /\ vadStarts = vadEnds + 1
           /\ vadStarts' - vadEnds' \in {0, 1}
           /\ vadRet'.isSpeaking <=> vadStarts' = vadEnds' + 1
      ]_vars

\* the second utterance has started after the first has ended
C34_Witness ==
    /\ vadRet.speechStarted
    /\ vadStarts = 2
    /\ vadEnds = 1

\* C35: toggle-to-recording resets the recognizer: when the main loop has
\* taken the toggle and called Reset, the recognizer holds no audio of an
\* earlier session, also after a replay that a ProcessAudio error aborted.
C35_ToggleResetsRecognizer ==
    [][pttHandled' = Append(pttHandled, TRUE) => engineAudio' = 0]_vars

\* C36: for any sequence of Start and Stop calls on one capturer, Start
\* after a completed Stop and Stop racing the monitor included, no channel
\* is closed twice and the callback never sends on a closed channel: no
\* panic is reachable.
C36_NoPanic ==
    /\ panicked = "none"
    /\ \A c \in Channels : closed[c] <= 1

\* the values passed to onToggle, in order: those the main loop has taken
\* and those waiting in the channel
Passed == pttHandled \o toggleChan

\* IsRecording()
IsRecording == hkRecording

\* the values passed alternate true, false, true, ... from true, one per
\* key-down handled, in order
PassedAlternates ==
    /\ Len(Passed) = hkSent
    /\ \A i \in 1..Len(Passed) : Passed[i] = (i % 2 = 1)

\* C37 as stated: the values passed to onToggle alternate from true, and
\* IsRecording always is the value passed last (false before the first).
C37_IsRecordingIsLastPassed ==
    /\ PassedAlternates
    /\ IsRecording = (Passed # <<>> /\ Passed[Len(Passed)])

\* C37: the values passed to onToggle alternate true, false, true, ... from
\* true, one call per key-down in key-down order; IsRecording is the value
\* passed last (false before the first) while no key-down is being handled,
\* and between the flip of a key-down and its onToggle call it already is
\* the value about to be passed.
C37_TogglesAlternate ==
    /\ PassedAlternates
    /\ hkPc = "select" => IsRecording = (Passed # <<>> /\ Passed[Len(Passed)])
    /\ hkPc = "call" => IsRecording = ~(Passed # <<>> /\ Passed[Len(Passed)])

\* three key-downs were passed on, the fourth is between flip and call
C37_Witness ==
    /\ hkPc = "call"
    /\ Passed = <<TRUE, FALSE, TRUE>>
    /\ ~IsRecording

SpecRing == Init /\ [][RingNext]_vars

\* every goroutine in a call goes on when it can; nobody has to make a call
FairSpecRing ==
    /\ SpecRing
    /\ \A t \in RingThreads :
         WF_vars(RingStep(t)
                   /\ UNCHANGED <<capVars, obsVars, vadVars, vadObsVars,
                                  runVars, runObsVars, pttVars, pttObsVars,
                                  mcpVars, setupVars, grpcVars>>)

\* the bytes in the buffer, oldest first
RingContents == [i \in 1..Available |-> rbBuffer[(rbReadPos + i - 1) % rbSize]]

\* C38: the buffer is a FIFO byte queue: the bytes Read has returned since
\* the last Reset, followed by the bytes still in the buffer, are the bytes
\* Write has accepted since the last Reset, in order, across wrap-around.
C38_FIFO ==
    rbSize > 0 => rbReadOut \o RingContents = rbAccepted

\* bytes were written past the end of the slice and read back
C38_Witness ==
    /\ rbSize = 2
    /\ rbAccepted = <<0, 1, 1>>
    /\ rbReadOut = <<0, 1, 1>>
    /\ rbWritePos = 1

\* the ring's fields a call can change
ringFields == <<rbBuffer, rbWritePos, rbReadPos, rbFull>>

C40_EveryCallReturns ==
    \A t \in RingThreads : (rbPc[t] # "idle") ~> (rbPc[t] = "idle")

\* C1: the capture producer never blocks: whenever the device is started,
\* whatever the two channels hold and whatever the consumer and the Stop
\* calls are doing, one invocation of the data callback can complete at once.
C1_ProducerNeverBlocks ==
    (device = "started" /\ panicked = "none") => ENABLED Data

\* a callback has completed while both channels were full
C1_Witness ==
    /\ device = "started"
    /\ Len(samples) = SamplesCapacity
    /\ Len(errors) = ErrorsCapacity
    /\ lastPush = "dropped"
    /\ Len(dropped) > ErrorsCapacity

\* C2: with the default profile (capacity 50), BurstFrames = 60 pushes with
\* no consumer draining give exactly 10 overflow events and leave exactly
\* the 50 frames pushed first in the channel, in push order.
C2_BurstKeepsFirstFifty ==
    (config = DefaultConfig /\ captured = BurstFrames
        /\ received = <<>> /\ errsReceived = 0)
    => /\ Len(dropped) = BurstFrames - DefaultSampleBufferSize
       /\ overflowSent = BurstFrames - DefaultSampleBufferSize
       /\ samples = [i \in 1..DefaultSampleBufferSize |-> i]

\* C3: the samples channel never holds more frames than the
\* SampleBufferSize of the profile the capturer was created with.
C3_ChannelWithinProfileCapacity == Len(samples) <= config

\* the channel is as full as it gets and a frame was turned away
C3_Witness ==
    /\ config \in Profiles
    /\ Len(samples) = SamplesCapacity
    /\ lastPush = "dropped"
    /\ captured = BurstFrames

\* C4: a callback that finds the samples channel full drops exactly the
\* incoming frame and leaves the buffered frames as they were; a dropped
\* frame is never in the channel nor delivered afterwards.
C4_FullPushDropsNewest ==
    [][/\ (captured' = captured + 1 /\ Len(samples) = SamplesCapacity)
            => /\ samples' = samples
               /\ dropped' = Append(dropped, captured + 1)
       /\ \A d \in Range(dropped') :
            d \notin Range(samples') /\ d \notin Range(received')]_vars

\* a frame was dropped, and frames captured before and after it were read
C4_Witness ==
    /\ Len(dropped) = 1
    /\ \E i, j \in 1..Len(received) :
            received[i] < dropped[1] /\ dropped[1] < received[j]

\* C5: every dropped frame surfaces one overflow event: the overflow errors
\* placed on the errors channel are as many as the frames dropped.
C5_EveryDropSurfaces == overflowSent = Len(dropped)

\* C6: the consumer receives a subsequence of the captured frames, in
\* capture order and without duplicates.
C6_CaptureOrder ==
    /\ StrictlyIncreasing(received)
    /\ Range(received) \subseteq 1..captured
    /\ StrictlyIncreasing(received \o samples)

\* the consumer read across a gap left by two dropped frames
C6_Witness ==
    /\ Len(dropped) = 2
    /\ Len(received) = MaxFrames - 2
    /\ samples = <<>>

\* C7: once cancellation has made the monitor call Stop on a running
\* capturer, that Stop eventually returns with the device torn down and the
\* samples and errors channels closed (unless device.Stop() itself failed).
C7_CancelStopCompletes ==
    (pc["monitor"] = "stop_check" /\ running)
    ~> \/ /\ pc["monitor"] = "exited"
          /\ stopRet["monitor"] = "nil"
          /\ device = "uninit"
          /\ closed["samples"] = 1
          /\ closed["errors"] = 1
       \/ \E p \in Procs : stopRet[p] = "err"

\* no step of a Stop call can be taken
StoppingAtRest ==
    /\ closed["stopChan"] > 0
    /\ ~ENABLED (Stop("owner") \/ Monitor)

\* C8: stopping is idempotent: nothing is torn down or closed twice, and
\* once the Stop calls (the owner's and the one cancellation triggers) have
\* come to rest without a device error, the device teardown and the closing
\* of the samples, errors and stop channels have each been done exactly once.
C8_StopExactlyOnce ==
    /\ panicked = "none"
    /\ teardowns <= 1
    /\ \A c \in Channels : closed[c] <= 1
    /\ (StoppingAtRest /\ \A p \in Procs : stopRet[p] # "err")
        => (teardowns = 1 /\ \A c \in Channels : closed[c] = 1)

\* C9: in the Silent state ProcessFrame reports speechJustStarted exactly
\* on the call that completes a run of SpeechFrames frames with speech, and
\* on no call whose run of speech frames is shorter than SpeechFrames.
C9_SpeechStartHysteresis ==
    [][vadCalls' = vadCalls + 1 =>
        /\ (~isSpeaking =>
                (vadRet'.speechStarted <=> speechRun' = vadConfig.SpeechFrames))
        /\ (vadRet'.speechStarted => speechRun' >= vadConfig.SpeechFrames)]_vars

\* speech started on the third frame of a run that other frames preceded
C9_Witness ==
    /\ vadRet.speechStarted
    /\ vadConfig.SpeechFrames = DefaultSpeechFrames
    /\ speechRun = DefaultSpeechFrames
    /\ vadCalls > DefaultSpeechFrames + 1

\* C10: in the Speaking state ProcessFrame reports speechJustEnded exactly
\* on the call that completes a run of SilenceFrames frames without speech,
\* and on no call whose run of silent frames is shorter than SilenceFrames.
C10_SpeechEndHysteresis ==
    [][vadCalls' = vadCalls + 1 =>
        /\ (isSpeaking =>
                (vadRet'.speechEnded <=> silenceRun' = vadConfig.SilenceFrames))
        /\ (vadRet'.speechEnded => silenceRun' >= vadConfig.SilenceFrames)]_vars

\* speech ended on the second silent frame of a run that followed a pause
\* of one silent frame and more speech
C10_Witness ==
    /\ vadRet.speechEnded
    /\ vadConfig.SilenceFrames = 2
    /\ silenceRun = 2
    /\ vadCalls > vadConfig.SpeechFrames + 3

\* C11: a frame whose energy is exactly the EnergyThreshold is classified as
\* speech: it advances the speech run counter and zeroes the silence one.
C11_ThresholdFrameIsSpeech ==
    [][(vadCalls' = vadCalls + 1
            /\ EnergyEquals(calculateEnergy(vadFrame'), vadConfig.EnergyThreshold))
        => /\ speechFrameCount' = speechFrameCount + 1
           /\ silenceFrameCount' = 0
           /\ lastSpeechDetection']_vars

====
